---- MODULE Spec2Model ----
(***************************************************************************)
(* Model of the conversational-avatar backend (src/backend) and of the     *)
(* single-file entry point (src/app.py).                                   *)
(*                                                                         *)
(*   Spec       the WebSocket server: avatar_websocket's message loop and  *)
(*              AvatarOrchestrator.process_text_input, one asyncio task    *)
(*              per connection, sharing one ResponseCache.  A step of the  *)
(*              model is the code between two suspension points.           *)
(*   SpecCache  ResponseCache alone, under any sequence of get, set,       *)
(*              invalidate and clear, with a clock.                        *)
(*   SpecConv   ConversationState alone, under any sequence of add_turn.   *)
(*   SpecLip    LipSyncService alone, under any sequence of initialize and *)
(*              generate_visemes.                                          *)
(*   SpecHttp   the HTTP chat interface next to one WebSocket connection.  *)
(*   SpecShared two WebSocket connections and the HTTP interface on one    *)
(*              cache.                                                     *)
(*   SpecStall  SpecShared under fair scheduling, with adapter calls that  *)
(*              may never return.                                          *)
(*   SpecEvict  ResponseCache filled with up to MaxEntries entries.        *)
(*   SpecSegment  LipSyncService on every short text.                      *)
(*   SpecFallback two WebSocket connections, the language model adapter    *)
(*              answering or failing.                                      *)
(*   SpecReuse  connections that end and begin, an id coming again.        *)
(*   SpecApp    src/app.py: its WebSocket handler and its /api/chat on     *)
(*              its response cache.                                        *)
(*                                                                         *)
(* Text is a sequence of one-character strings.  Time is an integer clock  *)
(* (time.time()); times of visemes are exact fractions of milliseconds,   *)
(* rounded to whole milliseconds where the code rounds to 3 decimals.      *)
(***************************************************************************)
EXTENDS Integers, Sequences, FiniteSets, TLC

VARIABLES
    \* ---- ResponseCache (services/cache_service.py)
    cache,          \* self.cache: insertion-ordered dict, as a sequence of entries
    hits,           \* self.hits
    misses,         \* self.misses
    max_size,       \* self.max_size
    ttl_seconds,    \* self.ttl_seconds
    now,            \* time.time()
    \* ---- history of the cache operations (SpecCache)
    ops,            \* the operations applied so far, most recent last (at most 2 kept)
    nOps,           \* how many operations were applied
    nGets,          \* how many of them were get, since construction or the last clear
    \* ---- ConversationState (models/conversation.py)
    conversations,  \* orchestrator.conversations: connection id -> history
    added,          \* SpecConv: every turn passed to add_turn, in call order
    \* ---- WebSocket server (main.py, avatar_orchestrator.py)
    connections,    \* ws_manager.connections (the registered connection ids)
    pc,             \* per connection: where its task is suspended
    clientOpen,     \* per connection: the client has not closed the transport
    pending,        \* per connection: inbound frames sent and not yet received
    framesLeft,     \* frames and HTTP requests the clients may still send
    local,          \* per connection: the locals of the running process_text_input
    sent,           \* per connection: the last event sent, in full
    trace,          \* per connection: every event sent and adapter call made, with its turn
    turnNo,         \* per connection: number of process_text_input calls so far
    \* ---- HTTP chat interface (main.py chat_endpoint, process_text_query)
    http,           \* the request under way or last answered, and its locals
    \* ---- LipSyncService (services/lip_sync_service.py)
    lip,            \* the service object and the calls of generate_visemes made on it
    \* ---- the single-file entry point (src/app.py)
    TTS_AVAILABLE   \* its module flag: edge_tts could be imported

cacheVars == <<cache, hits, misses, max_size, ttl_seconds, now>>
opVars    == <<ops, nOps, nGets>>
convVars  == <<conversations, added>>
connVars  == <<connections, pc, clientOpen, pending, framesLeft, local, sent, trace, turnNo>>
httpVars  == <<http>>
lipVars   == <<lip>>
appVars   == <<TTS_AVAILABLE>>
vars      == <<cacheVars, opVars, convVars, connVars, httpVars, lipVars, appVars>>

----------------------------------------------------------------------------
(* Bounds of the model.                                                    *)

MaxTime      == 2    \* the clock stops here
MaxCacheSize == 2    \* largest max_size a cache is constructed with
MaxTtl       == 2    \* largest ttl_seconds a cache is constructed with
MaxOps       == 3    \* SpecCache: operations applied to the cache
MaxAdds      == 12   \* SpecConv: calls of add_turn
MaxFrames    == 2    \* Spec: frames the clients send, all connections together
MaxClock     == 1    \* Spec: the clock stops here
ServerTtl    == 1    \* Spec: ttl_seconds of the server's cache
ServerMaxSize == 1   \* Spec: max_size of the server's cache
HttpInputs   == 2    \* SpecHttp: frames and HTTP requests the clients send
SharedInputs == 2    \* SpecShared: frames and HTTP requests the clients send

----------------------------------------------------------------------------
(* Text.                                                                   *)

None == [none |-> TRUE]

Max(a, b) == IF a >= b THEN a ELSE b
Min(a, b) == IF a <= b THEN a ELSE b

LowerLetters == <<"a","b","c","d","e","f","g","h","i","j","k","l","m",
                  "n","o","p","q","r","s","t","u","v","w","x","y","z">>
UpperLetters == <<"A","B","C","D","E","F","G","H","I","J","K","L","M",
                  "N","O","P","Q","R","S","T","U","V","W","X","Y","Z">>

IsLower(ch) == \E i \in 1..Len(LowerLetters) : LowerLetters[i] = ch
IsUpper(ch) == \E i \in 1..Len(UpperLetters) : UpperLetters[i] = ch
Whitespace  == {" ", "\t", "\n"}

\* str.lower(), one character
LowerChar(ch) ==
    IF IsUpper(ch)
    THEN LowerLetters[CHOOSE i \in 1..Len(UpperLetters) : UpperLetters[i] = ch]
    ELSE ch

\* str.lower()
Lower(text) == [i \in 1..Len(text) |-> LowerChar(text[i])]

\* str.strip(): drops the leading and the trailing whitespace
Strip(text) ==
    LET keep == {i \in 1..Len(text) : text[i] \notin Whitespace}
    IN  IF keep = {} THEN <<>>
        ELSE LET first == CHOOSE i \in keep : \A j \in keep : i <= j
                 last  == CHOOSE i \in keep : \A j \in keep : j <= i
             IN  SubSeq(text, first, last)

\* cache_key = text.lower().strip()
CacheKeyAsTyped(text) == text
CacheKey(text) == Strip(Lower(text))

\* the subsequence of s at the indices in S, in order
RECURSIVE Pick(_, _, _)
Pick(s, S, i) ==
    IF i > Len(s) THEN <<>>
    ELSE (IF i \in S THEN <<s[i]>> ELSE <<>>) \o Pick(s, S, i + 1)

----------------------------------------------------------------------------
(* ResponseCache.                                                          *)

\* hashlib.md5(key.encode()).hexdigest(): a digest of the key, taken to be
\* injective (no two keys of the model collide)
HashKey(key) == [md5 |-> key]

IndexOf(c, hk)  == IF \E i \in 1..Len(c) : c[i].key = hk
                   THEN CHOOSE i \in 1..Len(c) : c[i].key = hk
                   ELSE 0
Has(c, hk)      == IndexOf(c, hk) # 0
EntryOf(c, hk)  == c[IndexOf(c, hk)]
Remove(c, hk)   == Pick(c, {i \in 1..Len(c) : c[i].key # hk}, 1)

\* the test of line 58: time.time() - entry["timestamp"] < self.ttl_seconds
FreshStale(ts, t, ttl) == t - ts <= ttl
Fresh(ts, t, ttl) == t - ts < ttl

\* ResponseCache.get: the value returned
GetValue(c, key, t, ttl) ==
    LET hk == HashKey(key)
    IN  IF Has(c, hk) /\ Fresh(EntryOf(c, hk).timestamp, t, ttl)
        THEN EntryOf(c, hk).value
        ELSE None

GetCacheTouching(c, key, t, ttl) ==
    LET hk == HashKey(key)
    IN  IF ~Has(c, hk) THEN c
        ELSE IF Fresh(EntryOf(c, hk).timestamp, t, ttl)
             THEN [c EXCEPT ![IndexOf(c, hk)].timestamp = t]
             ELSE Remove(c, hk)

\* ResponseCache.get: the dict afterwards (an expired entry is deleted)
GetCache(c, key, t, ttl) ==
    LET hk == HashKey(key)
    IN  IF Has(c, hk) /\ ~Fresh(EntryOf(c, hk).timestamp, t, ttl)
        THEN Remove(c, hk)
        ELSE c

\* num_to_remove = max(1, len(sorted_keys) // 10)
NumToRemoveNoFloor(n) == n \div 10
NumToRemoveOne(n) == 1
NumToRemove(n) == Max(1, n \div 10)

\* position of entry i in sorted(keys, key=timestamp): the sort is stable, so
\* entries of equal timestamp keep the dict's order
RankByPlace(c, i) == i - 1
Rank(c, i) == Cardinality({j \in 1..Len(c) :
                  \/ c[j].timestamp < c[i].timestamp
                  \/ c[j].timestamp = c[i].timestamp /\ j < i})

\* ResponseCache._evict_oldest
EvictOldest(c) ==
    IF Len(c) = 0 THEN c
    ELSE Pick(c, {i \in 1..Len(c) : Rank(c, i) >= NumToRemove(Len(c))}, 1)

\* the assignment self.cache[hashed_key] = {...}: a key already present keeps
\* its place in the dict
Store(c, hk, value, t) ==
    LET e == [key |-> hk, value |-> value, timestamp |-> t]
    IN  IF Has(c, hk) THEN [c EXCEPT ![IndexOf(c, hk)] = e] ELSE Append(c, e)

\* ResponseCache.set
SetCacheNoEvict(c, key, value, t, max) == Store(c, HashKey(key), value, t)
SetCacheEvictAfter(c, key, value, t, max) ==
    LET c1 == Store(c, HashKey(key), value, t)
    IN  IF Len(c) >= max THEN EvictOldest(c1) ELSE c1
SetCache(c, key, value, t, max) ==
    LET c1 == IF Len(c) >= max THEN EvictOldest(c) ELSE c
    IN  Store(c1, HashKey(key), value, t)

\* ResponseCache.invalidate
InvalidateCache(c, key) == Remove(c, HashKey(key))

\* ResponseCache.get_stats()["entries"]
StatsEntries(c) == Len(c)

----------------------------------------------------------------------------
(* LipSyncService: the viseme generator.  Times are integers, milliseconds. *)

\* _clean_text: lower, drop what is neither an ASCII letter nor whitespace,
\* then ' '.join(clean.split())
CleanTextUnjoined(text) ==
    LET l == Lower(text)
    IN  Pick(l, {i \in 1..Len(l) : IsLower(l[i]) \/ l[i] \in Whitespace}, 1)
CleanText(text) ==
    LET l    == Lower(text)
        kept == Pick(l, {i \in 1..Len(l) : IsLower(l[i]) \/ l[i] \in Whitespace}, 1)
        isWs(i) == kept[i] \in Whitespace
        keep == {i \in 1..Len(kept) :
                    \/ ~isWs(i)
                    \/ /\ i < Len(kept) /\ ~isWs(i + 1)
                       /\ \E j \in 1..(i - 1) : ~isWs(j)}
    IN  [i \in 1..Len(Pick(kept, keep, 1)) |->
            IF Pick(kept, keep, 1)[i] \in Whitespace THEN " " ELSE Pick(kept, keep, 1)[i]]

Digraphs == {<<"t", "h">>, <<"s", "h">>, <<"c", "h">>}

\* PHONEME_TO_VISEME, a unit being a sequence of one or two characters
PhonemeTable ==
    [a |-> "AA", e |-> "E", i |-> "I", o |-> "O", u |-> "U",
     b |-> "PP", p |-> "PP", m |-> "PP",
     f |-> "FF", v |-> "FF",
     d |-> "DD", t |-> "DD", n |-> "DD",
     k |-> "kk", g |-> "kk",
     s |-> "SS", z |-> "SS",
     j |-> "CH",
     r |-> "RR",
     l |-> "DD",
     w |-> "O",
     y |-> "I",
     h |-> "sil"]

InTable(unit) ==
    \/ unit \in Digraphs
    \/ Len(unit) = 1 /\ (unit[1] = " " \/ unit[1] \in DOMAIN PhonemeTable)

VisemeCodeByLetter(unit) ==
    IF Len(unit) = 1 /\ unit[1] \in DOMAIN PhonemeTable THEN PhonemeTable[unit[1]]
    ELSE IF Len(unit) = 2 THEN PhonemeTable[unit[1]]
    ELSE "sil"

\* self.PHONEME_TO_VISEME.get(phoneme, 'sil')
VisemeCode(unit) ==
    IF unit = <<"t", "h">> THEN "TH"
    ELSE IF unit \in Digraphs THEN "CH"
    ELSE IF Len(unit) = 1 /\ unit[1] \in DOMAIN PhonemeTable THEN PhonemeTable[unit[1]]
    ELSE "sil"

\* self.VISEME_BLEND_SHAPES.get(viseme_code, 'viseme_sil')
BlendShape(code) == IF code = "AA" THEN "viseme_aa" ELSE "viseme_" \o code

\* str.isalpha() of a character of the model's alphabet
IsAlpha(ch) == IsLower(ch) \/ IsUpper(ch)

RECURSIVE PhonemesFromDropping(_, _)
PhonemesFromDropping(text, i) ==
    IF i > Len(text) THEN <<>>
    ELSE IF i < Len(text) /\ SubSeq(text, i, i + 1) \in Digraphs
         THEN <<SubSeq(text, i, i + 1)>> \o PhonemesFromDropping(text, i + 2)
         ELSE (IF InTable(<<text[i]>>) THEN <<(<<text[i]>>)>> ELSE <<>>)
              \o PhonemesFromDropping(text, i + 1)

\* _text_to_phonemes, from cursor i
RECURSIVE PhonemesFrom(_, _)
PhonemesFrom(text, i) ==
    IF i > Len(text) THEN <<>>
    ELSE IF i < Len(text) /\ SubSeq(text, i, i + 1) \in Digraphs
         THEN <<SubSeq(text, i, i + 1)>> \o PhonemesFrom(text, i + 2)
         ELSE (IF InTable(<<text[i]>>) THEN <<(<<text[i]>>)>>
               ELSE IF IsAlpha(text[i]) THEN <<(<<"a">>)>>
               ELSE <<>>) \o PhonemesFrom(text, i + 1)

\* _text_to_phonemes
TextToPhonemesByChar(text) ==
    LET units == [i \in 1..Len(text) |->
                    IF InTable(<<text[i]>>) THEN <<text[i]>>
                    ELSE IF IsAlpha(text[i]) THEN <<"a">> ELSE <<>>]
    IN  Pick(units, {i \in 1..Len(text) : units[i] # <<>>}, 1)
TextToPhonemes(text) == PhonemesFrom(text, 1)

\* round(x, 3) of x = num / den milliseconds (half to even)
RoundMs(num, den) ==
    LET q == num \div den
        r == num % den
    IN  IF 2 * r < den THEN q
        ELSE IF 2 * r > den THEN q + 1
        ELSE IF q % 2 = 0 THEN q ELSE q + 1

FallbackPerPhonemeMs == 80     \* duration_per_phoneme = 0.08
FinalSilenceMs       == 200    \* current_time + 0.2

\* duration_per_phoneme, as the fraction num / den of a millisecond:
\* total_duration / len(phonemes) when total_duration > 0, else 80 ms
DurationPerPhonemeFixed(total, n) == [num |-> FallbackPerPhonemeMs, den |-> 1]
DurationPerPhoneme(total, n) ==
    IF total > 0 THEN [num |-> total, den |-> n]
    ELSE [num |-> FallbackPerPhonemeMs, den |-> 1]

\* "start" of unit i: round(current_time, 3), current_time being the sum of
\* the i - 1 slices before it
UnitStart(i, per) == RoundMs((i - 1) * per.num, per.den)

\* "end" of unit i: round(current_time + duration_per_phoneme, 3)
UnitEndOfRoundedSlice(i, per) == UnitStart(i, per) + RoundMs(per.num, per.den)
UnitEnd(i, per) == RoundMs((i - 1) * per.num + per.num, per.den)

\* _phonemes_to_visemes
PhonemesToVisemes(phonemes, total) ==
    IF Len(phonemes) = 0 THEN <<>>
    ELSE LET n     == Len(phonemes)
             per   == DurationPerPhoneme(total, n)
             units == [i \in 1..n |->
                          [start |-> UnitStart(i, per),
                           end   |-> UnitEnd(i, per),
                           value |-> VisemeCode(phonemes[i]),
                           blendShape |-> BlendShape(VisemeCode(phonemes[i]))]]
         IN  Append(units,
                    [start |-> UnitStart(n + 1, per),
                     end   |-> RoundMs(n * per.num + FinalSilenceMs * per.den, per.den),
                     value |-> "sil", blendShape |-> "viseme_sil"])

\* LipSyncService.generate_visemes
GenerateVisemes(text, audio_duration) ==
    PhonemesToVisemes(TextToPhonemes(CleanText(text)), audio_duration)

\* LipSyncService.__init__
NewLipSync == [initialized |-> FALSE, calls |-> <<>>]

\* generate_visemes as a method: self is passed and never read
ServiceVisemesWhenReady(self, text, audio_duration) ==
    IF self.initialized THEN GenerateVisemes(text, audio_duration) ELSE <<>>
ServiceVisemes(self, text, audio_duration) == GenerateVisemes(text, audio_duration)

----------------------------------------------------------------------------
(* SpecCache: the cache under any sequence of its operations.              *)

\* the keys and the values the operations are called with
KeyHi      == <<"h", "i">>
KeyHiRaw   == <<" ", "H", "i">>
KeyTh      == <<"t", "h">>
CacheKeys  == {KeyHi, KeyHiRaw, KeyTh}
ReplyOk    == <<"T", "h", "e", " ", "c", "a", "t", "!">>
ReplyNo    == <<"n", "o">>
CacheValues == {[text |-> ReplyOk], [text |-> ReplyNo]}

\* the record of one operation: what was called, what it returned, when, and
\* the cache as the call found it: full or not, its entry count, the value
\* stored under the key (None: no entry) and that entry's age (-1: no entry)
OpRecord(op, key, value, ret) ==
    LET hk == HashKey(key)
    IN  [op |-> op, key |-> key, value |-> value, ret |-> ret, at |-> now,
         full    |-> Len(cache) >= max_size,
         entries |-> StatsEntries(cache),
         stored  |-> IF Has(cache, hk) THEN EntryOf(cache, hk).value ELSE None,
         age     |-> IF Has(cache, hk) THEN now - EntryOf(cache, hk).timestamp ELSE -1]

Log(rec) == IF Len(ops) < 2 THEN Append(ops, rec) ELSE <<ops[2], rec>>

InitCacheObject ==
    /\ cache = <<>>
    /\ hits = 0
    /\ misses = 0
    /\ now = 0

\* no HTTP request was made: the locals of process_text_query, and what the
\* request met: n (requests made so far), kind (its text is absent, a
\* string, or another JSON value), status (of the HTTP response), calls (the
\* adapters called for it), stored_at (when it wrote the cache, -1 if never)
NoRequest ==
    [pc |-> "idle", n |-> 0, kind |-> "none", text |-> <<>>,
     include_audio |-> FALSE, emotion_data |-> None, cache_key |-> <<>>,
     cached |-> None, response_text |-> <<>>, result |-> None, status |-> 0,
     calls |-> {}, stored_at |-> -1]

InitIdleServer ==
    /\ http = NoRequest
    /\ lip = NewLipSync
    /\ TTS_AVAILABLE = TRUE
    /\ connections = {}
    /\ pc = <<>>
    /\ clientOpen = <<>>
    /\ pending = <<>>
    /\ framesLeft = 0
    /\ local = <<>>
    /\ sent = <<>>
    /\ trace = <<>>
    /\ turnNo = <<>>

InitCache ==
    /\ InitCacheObject
    /\ max_size \in 1..MaxCacheSize
    /\ ttl_seconds \in 1..MaxTtl
    /\ ops = <<>>
    /\ nOps = 0
    /\ nGets = 0
    /\ conversations = <<>>
    /\ added = <<>>
    /\ InitIdleServer

GetOp(k) ==
    /\ nOps < MaxOps
    /\ LET ret == GetValue(cache, k, now, ttl_seconds)
       IN  /\ cache' = GetCache(cache, k, now, ttl_seconds)
           /\ hits' = IF ret # None THEN hits + 1 ELSE hits
           /\ misses' = IF ret # None THEN misses ELSE misses + 1
           /\ ops' = Log(OpRecord("get", k, None, ret))
    /\ nOps' = nOps + 1
    /\ nGets' = nGets + 1
    /\ UNCHANGED <<max_size, ttl_seconds, now, convVars, connVars, httpVars, lipVars, appVars>>

SetOp(k, v) ==
    /\ nOps < MaxOps
    /\ cache' = SetCache(cache, k, v, now, max_size)
    /\ ops' = Log(OpRecord("set", k, v, None))
    /\ nOps' = nOps + 1
    /\ UNCHANGED <<hits, misses, max_size, ttl_seconds, now, nGets, convVars, connVars, httpVars, lipVars, appVars>>

InvalidateOp(k) ==
    /\ nOps < MaxOps
    /\ cache' = InvalidateCache(cache, k)
    /\ ops' = Log(OpRecord("invalidate", k, None, None))
    /\ nOps' = nOps + 1
    /\ UNCHANGED <<hits, misses, max_size, ttl_seconds, now, nGets, convVars, connVars, httpVars, lipVars, appVars>>

ClearOpKeepsCounters ==
    /\ nOps < MaxOps
    /\ cache' = <<>>
    /\ ops' = Log(OpRecord("clear", <<>>, None, None))
    /\ nOps' = nOps + 1
    /\ nGets' = 0
    /\ UNCHANGED <<hits, misses, max_size, ttl_seconds, now, convVars, connVars, httpVars, lipVars, appVars>>
ClearOp ==
    /\ nOps < MaxOps
    /\ cache' = <<>>
    /\ hits' = 0
    /\ misses' = 0
    /\ ops' = Log(OpRecord("clear", <<>>, None, None))
    /\ nOps' = nOps + 1
    /\ nGets' = 0
    /\ UNCHANGED <<max_size, ttl_seconds, now, convVars, connVars, httpVars, lipVars, appVars>>

\* time passes
Tick ==
    /\ now < MaxTime
    /\ now' = now + 1
    /\ UNCHANGED <<cache, hits, misses, max_size, ttl_seconds, opVars, lipVars, appVars, httpVars, convVars,
                   connVars>>

\* time passes while the server runs
TickServer ==
    /\ now < MaxClock
    /\ now' = now + 1
    /\ UNCHANGED <<cache, hits, misses, max_size, ttl_seconds, opVars, lipVars, appVars, httpVars, convVars,
                   connVars>>

NextCache ==
    \/ \E k \in CacheKeys : GetOp(k)
    \/ \E k \in CacheKeys, v \in CacheValues : SetOp(k, v)
    \/ \E k \in CacheKeys : InvalidateOp(k)
    \/ ClearOp
    \/ Tick

SpecCache == InitCache /\ [][NextCache]_vars

----------------------------------------------------------------------------
(* SpecEvict: set on a cache that already holds up to MaxEntries entries,  *)
(* full or one short of full, so that the eviction removes more than one   *)
(* entry.                                                                  *)

MaxEntries == 21    \* SpecEvict: entries the cache holds at the start

\* the key of the i-th entry: the query "a...a" of i letters
FillKey(i) == [j \in 1..i |-> "a"]

\* when the i-th of n entries was last set.  An entry keeps its place in the
\* dict when it is set again, so the timestamps need not follow the places:
\* all at once, in order, in reverse order, or in turns
StampShapes == {"same", "rising", "falling", "turns"}
Stamp(shape, i, n) ==
    IF shape = "same" THEN 0
    ELSE IF shape = "rising" THEN (2 * (i - 1)) \div n
    ELSE IF shape = "falling" THEN (2 * (n - i)) \div n
    ELSE i % 2

InitEvict ==
    /\ \E n \in 1..MaxEntries, shape \in StampShapes :
          cache = [i \in 1..n |->
                     [key |-> HashKey(FillKey(i)), value |-> [text |-> ReplyNo],
                      timestamp |-> Stamp(shape, i, n)]]
    /\ max_size \in {Len(cache), Len(cache) + 1}
    /\ ttl_seconds \in 1..MaxTtl
    /\ hits = 0
    /\ misses = 0
    /\ now = 1
    /\ ops = <<>>
    /\ nOps = 0
    /\ nGets = 0
    /\ conversations = <<>>
    /\ added = <<>>
    /\ InitIdleServer

NextEvict ==
    \/ \E k \in {FillKey(1), FillKey(2), KeyTh} : SetOp(k, [text |-> ReplyOk])
    \/ \E k \in {FillKey(1), KeyTh} : GetOp(k)

SpecEvict == InitEvict /\ [][NextEvict]_vars

----------------------------------------------------------------------------
(* ConversationState.                                                      *)

max_history == 10

\* self.history[-self.max_history:]
LastN(h, n) == IF Len(h) <= n THEN h ELSE SubSeq(h, Len(h) - n + 1, Len(h))

\* the dict of one turn
Turn(user_message, assistant_message, user_emotion, t) ==
    [user_message |-> user_message, assistant_message |-> assistant_message,
     user_emotion |-> user_emotion, timestamp |-> t]

\* ConversationState.add_turn: the history afterwards
AddTurnNoTrim(history, turn) == Append(history, turn)
AddTurn(history, turn) ==
    LET h == Append(history, turn)
    IN  IF Len(h) > max_history THEN LastN(h, max_history) ELSE h

----------------------------------------------------------------------------
(* SpecConv: one ConversationState under any sequence of add_turn.         *)

ConvId       == "conv"
UserMessages == {KeyHi, KeyTh}

InitConv ==
    /\ InitCacheObject
    /\ max_size = 1
    /\ ttl_seconds = 1
    /\ ops = <<>>
    /\ nOps = 0
    /\ nGets = 0
    /\ conversations = [c \in {ConvId} |-> <<>>]
    /\ added = <<>>
    /\ InitIdleServer

AddTurnOp(um) ==
    /\ Len(added) < MaxAdds
    /\ LET turn == Turn(um, ReplyOk, "neutral", now)
       IN  /\ conversations' = [conversations EXCEPT ![ConvId] = AddTurn(@, turn)]
           /\ added' = Append(added, turn)
    /\ UNCHANGED <<cacheVars, opVars, lipVars, appVars, httpVars, connVars>>

NextConv == \E um \in UserMessages : AddTurnOp(um)

SpecConv == InitConv /\ [][NextConv]_vars

----------------------------------------------------------------------------
(* SpecLip: LipSyncService alone, under any sequence of initialize and      *)
(* generate_visemes.                                                        *)

MaxCalls == 3     \* SpecLip: calls of generate_visemes

\* the texts and the durations (milliseconds) generate_visemes is called with
TextEmptyLip == <<>>
TextBlank    == <<" ", "\t">>
TextDigits   == <<"4", "2", "!">>
TextCat      == <<"c", "a", "t">>
LipTexts     == {TextEmptyLip, TextBlank, TextDigits, KeyTh, TextCat, ReplyOk}
LipDurations == {0, 100, 400}

InitLip ==
    /\ InitCacheObject
    /\ max_size = 1
    /\ ttl_seconds = 1
    /\ ops = <<>>
    /\ nOps = 0
    /\ nGets = 0
    /\ conversations = <<>>
    /\ added = <<>>
    /\ InitIdleServer

\* LipSyncService.initialize
LipInitialize ==
    /\ lip' = [lip EXCEPT !.initialized = TRUE]
    /\ UNCHANGED <<cacheVars, opVars, convVars, connVars, httpVars, appVars>>

\* one call of generate_visemes, kept with its arguments, the state of the
\* service it was made in, and what it returned
LipGenerate(text, audio_duration) ==
    /\ Len(lip.calls) < MaxCalls
    /\ lip' = [lip EXCEPT !.calls = Append(@,
                   [text |-> text, audio_duration |-> audio_duration,
                    initialized |-> lip.initialized,
                    visemes |-> ServiceVisemes(lip, text, audio_duration)])]
    /\ UNCHANGED <<cacheVars, opVars, convVars, connVars, httpVars, appVars>>

NextLip ==
    \/ LipInitialize
    \/ \E text \in LipTexts, d \in LipDurations : LipGenerate(text, d)

SpecLip == InitLip /\ [][NextLip]_vars

----------------------------------------------------------------------------
(* SpecSegment: one call of generate_visemes on a fresh service, with      *)
(* every text of up to MaxSegLen lower-case letters and spaces, and some   *)
(* longer ones.                                                            *)

MaxSegLen == 2      \* SpecSegment: length of the texts enumerated

SegAlphabet == {LowerLetters[i] : i \in 1..Len(LowerLetters)} \cup {" "}

\* the longer ones: a digraph after a letter that could begin one, two in a
\* row, a letter between two spaces, a digraph cut by a space
SegTexts  == UNION {[1..n -> SegAlphabet] : n \in 0..MaxSegLen}
                \cup {<<"t", "s", "h">>, <<"c", "h", "t", "h">>,
                      <<"a", " ", "x", " ", "b">>, <<"t", " ", "h">>, ReplyOk}

NextSegment ==
    \E text \in SegTexts : Len(lip.calls) = 0 /\ LipGenerate(text, 400)

SpecSegment == InitLip /\ [][NextSegment]_vars

----------------------------------------------------------------------------
(* The collaborators of a turn.                                            *)

\* what EmotionService.detect_from_text can return: the classifier's label
\* and score (percent), or the default of its exception handler
EmotionResults == {[emotion |-> "joy", confidence |-> 70],
                   [emotion |-> "neutral", confidence |-> 50]}

\* replies of the model endpoint (status 200)
LLMReplies == {ReplyOk}

\* how a call of generate_response ends: status 200 with a reply, or any of
\* its error paths (no credentials, another status, an exception)
LLMOutcomes == {[ok |-> TRUE, reply |-> r] : r \in LLMReplies}
                   \cup {[ok |-> FALSE, reply |-> <<>>]}

\* LLMService._mock_response; the canned texts are cut to their first words
MockDefault(user_message) ==
    <<"A", "b", "o", "u", "t", " ", "'">> \o user_message \o <<"'">>
MockDelta == <<"D", "e", "l", "t", "a", " ", "L", "a", "k", "e">>
Contains(text, kw) ==
    \E i \in 1..(Len(text) - Len(kw) + 1) : SubSeq(text, i, i + Len(kw) - 1) = kw
MockResponse(user_message) ==
    IF Contains(Lower(user_message), <<"d", "e", "l", "t", "a">>)
    THEN MockDelta
    ELSE MockDefault(user_message)

\* len(text.split())
WordCount(text) ==
    Cardinality({i \in 1..Len(text) :
        /\ text[i] \notin Whitespace
        /\ (i = 1 \/ text[i - 1] \in Whitespace)})

MsPerWord == 400    \* (word_count / 150) * 60 seconds

\* TTSService.synthesize: what it returns when the stream yielded audio, when
\* it yielded no audio chunk, and when it raised
AudioBytes == <<"ID3", "frame">>
TtsOutcomes == {"audio", "empty", "raise"}
Synthesize(text, outcome) ==
    IF outcome = "raise"
    THEN [audio |-> <<>>, duration |-> 0]
    ELSE [audio |-> IF outcome = "audio" THEN AudioBytes ELSE <<>>,
          duration |-> WordCount(text) * MsPerWord]

\* base64.b64encode(...).decode("utf-8"): empty for no bytes
B64Encode(bytes) == [i \in 1..Len(bytes) |-> <<"b64", bytes[i]>>]

----------------------------------------------------------------------------
(* Events sent to the client.                                              *)

EvGreeting(c)     == [type |-> "greeting", connection_id |-> c]
EvEmotion(er)     == [type |-> "emotion_detected", emotion |-> er.emotion,
                      confidence |-> er.confidence]
EvText(t)         == [type |-> "response_text", text |-> t]
EvLipSync(v, d)   == [type |-> "lip_sync_data", visemes |-> v, duration |-> d]
EvAudio(a)        == [type |-> "audio_data", audio |-> a, format |-> "mp3"]
EvComplete        == [type |-> "response_complete"]
EvTurnError       == [type |-> "error", message |-> "Sorry, I encountered an error processing your request."]
EvConnError       == [type |-> "error", message |-> "An error occurred. Please try again."]
EvControl(cmd, st) == [type |-> "control_response", command |-> cmd, status |-> st]
EvStatus(c)       == [type |-> "status", connection_id |-> c]

TurnEventTypes == <<"emotion_detected", "response_text", "lip_sync_data",
                    "audio_data", "response_complete">>

Types(evs) == [i \in 1..Len(evs) |-> evs[i].type]

----------------------------------------------------------------------------
(* Spec: the server.                                                       *)

\* connection ids: the model names the connections in the order in which
\* they are accepted, each by an id of its own (SpecReuse lets an id come
\* again)
ConnOrder == <<"c1", "c2">>
Conns     == DOMAIN pc

\* texts a client sends: empty, a query, and the same query before
\* normalization
TextEmpty == <<>>
Texts     == {TextEmpty, KeyHi, KeyHiRaw}

\* the locals of process_text_input, and what the turn met: kind (the text
\* is a string or not), started (the time of its cache lookup), raised (a
\* step raised), hit (the cache answered), llm and tts_outcome (how the
\* adapter calls ended), classified (what the emotion classifier was given)
NoLocal ==
    [text |-> <<>>, cache_key |-> <<>>, cached_response |-> None,
     classified |-> None,
     emotion_data |-> None, response_text |-> <<>>, tts_result |-> None,
     visemes |-> <<>>, command |-> "none", kind |-> "none", started |-> 0,
     raised |-> FALSE, hit |-> FALSE, llm |-> "none", tts_outcome |-> "none"]

\* process_text_input has returned: its locals are gone
Returned(l) ==
    [NoLocal EXCEPT !.kind = l.kind, !.raised = l.raised, !.hit = l.hit,
                    !.llm = l.llm, !.tts_outcome = l.tts_outcome]

\* the server started (lifespan), no connection accepted yet; ids are the
\* connections that will be accepted
InitConnections(ids, frames) ==
    /\ connections = {}
    /\ pc = [c \in ids |-> "new"]
    /\ clientOpen = [c \in ids |-> TRUE]
    /\ pending = [c \in ids |-> 0]
    /\ framesLeft = frames
    /\ local = [c \in ids |-> NoLocal]
    /\ sent = [c \in ids |-> None]
    /\ trace = [c \in ids |-> <<>>]
    /\ turnNo = [c \in ids |-> 0]

InitServer(ids) == InitConnections(ids, MaxFrames)

Init ==
    /\ InitCacheObject
    /\ max_size = ServerMaxSize
    /\ ttl_seconds = ServerTtl
    /\ ops = <<>>
    /\ nOps = 0
    /\ nGets = 0
    /\ conversations = <<>>
    /\ added = <<>>
    /\ InitServer({ConnOrder[1]})
    /\ http = NoRequest
    /\ lip = NewLipSync
    /\ TTS_AVAILABLE = TRUE

\* one entry of the trace: an event sent, an adapter called (call_emotion,
\* call_llm, call_tts) or the language model's return (return_llm), in
\* turn t (0 outside process_text_input)
Tr(kind, t) == [kind |-> kind, turn |-> t]

\* websocket.send_json(ev) returned: the event went out
Emit(c, ev, t) ==
    /\ sent' = [sent EXCEPT ![c] = ev]
    /\ trace' = [trace EXCEPT ![c] = Append(@, Tr(ev.type, t))]

\* avatar_websocket up to the greeting: accept and ws_manager.register
Connect(c) ==
    /\ pc[c] = "new"
    /\ \A i \in 1..Len(ConnOrder) :
          (ConnOrder[i] \in Conns /\ \E j \in (i + 1)..Len(ConnOrder) : ConnOrder[j] = c)
              => pc[ConnOrder[i]] # "new"
    /\ connections' = connections \cup {c}
    /\ pc' = [pc EXCEPT ![c] = "greet"]
    /\ UNCHANGED <<cacheVars, opVars, lipVars, appVars, httpVars, convVars, clientOpen, pending, framesLeft,
                   local, sent, trace, turnNo>>

\* the finally of avatar_websocket: ws_manager.unregister, the task ends
Unregistered(c) ==
    /\ connections' = connections \ {c}
    /\ pc' = [pc EXCEPT ![c] = "closed"]

\* the client sends a frame; it waits in the transport until received
ClientSend(c) ==
    /\ pc[c] \notin {"new", "closed"}
    /\ clientOpen[c]
    /\ framesLeft > 0
    /\ pending' = [pending EXCEPT ![c] = @ + 1]
    /\ framesLeft' = framesLeft - 1
    /\ UNCHANGED <<cacheVars, opVars, lipVars, appVars, httpVars, convVars, connections, pc, clientOpen,
                   local, sent, trace, turnNo>>

\* the client closes the transport: from now on send_json raises
ClientDisconnect(c) ==
    /\ pc[c] \notin {"new", "closed"}
    /\ clientOpen[c]
    /\ clientOpen' = [clientOpen EXCEPT ![c] = FALSE]
    /\ UNCHANGED <<cacheVars, opVars, lipVars, appVars, httpVars, convVars, connections, pc, pending, framesLeft,
                   local, sent, trace, turnNo>>

\* await websocket.send_json(greeting)
SendGreetingSkipped(c) ==
    /\ pc[c] = "greet"
    /\ pc' = [pc EXCEPT ![c] = "loop"]
    /\ UNCHANGED <<cacheVars, opVars, lipVars, appVars, httpVars, convVars, connections, clientOpen,
                   pending, framesLeft, local, sent, trace, turnNo>>
SendGreeting(c) ==
    /\ pc[c] = "greet"
    /\ IF clientOpen[c]
       THEN /\ Emit(c, EvGreeting(c), 0)
            /\ pc' = [pc EXCEPT ![c] = "loop"]
            /\ UNCHANGED connections
       ELSE /\ Unregistered(c)
            /\ UNCHANGED <<sent, trace>>
    /\ UNCHANGED <<cacheVars, opVars, lipVars, appVars, httpVars, convVars, clientOpen, pending, framesLeft,
                   local, turnNo>>

\* the main loop takes the next frame only when the handler of the previous
\* one has returned (each handler is awaited inside the loop)
AtReceiveAnywhere(c) == pc[c] \notin {"new", "greet", "closed"}
AtReceive(c) == pc[c] = "loop"

\* the argument of emotion_service.detect_from_text (line 123)
EmotionInputNormalized(text, cache_key) == cache_key
EmotionInput(text, cache_key) == text

\* receive() of a text_input or transcription frame whose text is a string,
\* then process_text_input up to its first send (lines 108-123): the
\* conversation is created, the cache is read, the emotion is detected
ReceiveText(c, text, er) ==
    /\ AtReceive(c)
    /\ pending[c] > 0
    /\ pending' = [pending EXCEPT ![c] = @ - 1]
    /\ turnNo' = [turnNo EXCEPT ![c] = @ + 1]
    /\ conversations' = IF c \in DOMAIN conversations THEN conversations
                        ELSE (c :> <<>>) @@ conversations
    /\ LET key == CacheKey(text)
           got == GetValue(cache, key, now, ttl_seconds)
       IN  /\ cache' = GetCache(cache, key, now, ttl_seconds)
           /\ hits' = IF got # None THEN hits + 1 ELSE hits
           /\ misses' = IF got # None THEN misses ELSE misses + 1
           /\ local' = [local EXCEPT ![c] =
                  [NoLocal EXCEPT !.text = text, !.cache_key = key,
                                  !.cached_response = got, !.emotion_data = er,
                                  !.classified = EmotionInput(text, key),
                                  !.kind = "str", !.started = now]]
    /\ trace' = [trace EXCEPT ![c] = Append(@, Tr("call_emotion", turnNo[c] + 1))]
    /\ pc' = [pc EXCEPT ![c] = "send_emotion"]
    /\ UNCHANGED <<max_size, ttl_seconds, now, opVars, lipVars, appVars, httpVars, added, connections,
                   clientOpen, framesLeft, sent>>

\* the same with a text that is no string (a number, null): text.lower()
\* raises at line 116, after the conversation was created
ReceiveNonString(c) ==
    /\ AtReceive(c)
    /\ pending[c] > 0
    /\ pending' = [pending EXCEPT ![c] = @ - 1]
    /\ turnNo' = [turnNo EXCEPT ![c] = @ + 1]
    /\ conversations' = IF c \in DOMAIN conversations THEN conversations
                        ELSE (c :> <<>>) @@ conversations
    /\ local' = [local EXCEPT ![c] = [NoLocal EXCEPT !.kind = "other", !.raised = TRUE]]
    /\ pc' = [pc EXCEPT ![c] = "send_error"]
    /\ UNCHANGED <<cacheVars, opVars, lipVars, appVars, httpVars, added, connections, clientOpen, framesLeft,
                   sent, trace>>

\* a frame that makes the loop itself raise: malformed JSON (json.loads) or
\* a text_input without "text" (KeyError); control is in the except clause
\* of avatar_websocket
ReceiveInvalid(c) ==
    /\ AtReceive(c)
    /\ pending[c] > 0
    /\ pending' = [pending EXCEPT ![c] = @ - 1]
    /\ pc' = [pc EXCEPT ![c] = "conn_error"]
    /\ UNCHANGED <<cacheVars, opVars, lipVars, appVars, httpVars, convVars, connections, clientOpen, framesLeft,
                   local, sent, trace, turnNo>>

\* except Exception of avatar_websocket: try to send the error, then finally
ConnError(c) ==
    /\ pc[c] = "conn_error"
    /\ IF clientOpen[c] THEN Emit(c, EvConnError, 0) ELSE UNCHANGED <<sent, trace>>
    /\ Unregistered(c)
    /\ UNCHANGED <<cacheVars, opVars, lipVars, appVars, httpVars, convVars, clientOpen, pending, framesLeft,
                   local, turnNo>>

ControlCommands == {"ping", "stop_speaking", "get_status", "unknown"}

\* a control frame: handle_control_message up to its send; an unknown
\* command sends nothing
ReceiveControl(c, cmd) ==
    /\ AtReceive(c)
    /\ pending[c] > 0
    /\ pending' = [pending EXCEPT ![c] = @ - 1]
    /\ IF cmd = "unknown"
       THEN UNCHANGED <<pc, local>>
       ELSE /\ pc' = [pc EXCEPT ![c] = "send_control"]
            /\ local' = [local EXCEPT ![c].command = cmd]
    /\ UNCHANGED <<cacheVars, opVars, lipVars, appVars, httpVars, convVars, connections, clientOpen, framesLeft,
                   sent, trace, turnNo>>

\* handle_control_message: the reply to a command
ControlReplyPong(c, cmd) == EvControl("pong", "ok")
ControlReply(c, cmd) ==
    IF cmd = "stop_speaking" THEN EvControl("stop_speaking", "stopped")
    ELSE IF cmd = "ping" THEN EvControl("pong", "ok")
    ELSE EvStatus(c)

\* the send of handle_control_message; a raise ends the loop
SendControl(c) ==
    /\ pc[c] = "send_control"
    /\ IF clientOpen[c]
       THEN /\ Emit(c, ControlReply(c, local[c].command), 0)
            /\ pc' = [pc EXCEPT ![c] = "loop"]
            /\ UNCHANGED connections
       ELSE /\ Unregistered(c)
            /\ UNCHANGED <<sent, trace>>
    /\ local' = [local EXCEPT ![c].command = "none"]
    /\ UNCHANGED <<cacheVars, opVars, lipVars, appVars, httpVars, convVars, clientOpen, pending, framesLeft, turnNo>>

\* a frame the loop ignores: bytes, or JSON of another type
ReceiveIgnored(c) ==
    /\ AtReceive(c)
    /\ pending[c] > 0
    /\ pending' = [pending EXCEPT ![c] = @ - 1]
    /\ UNCHANGED <<cacheVars, opVars, lipVars, appVars, httpVars, convVars, connections, pc, clientOpen, framesLeft,
                   local, sent, trace, turnNo>>

\* receive() after the client closed and every frame was taken: the loop
\* ends and the connection is unregistered
ReceiveDisconnect(c) ==
    /\ AtReceive(c)
    /\ pending[c] = 0
    /\ ~clientOpen[c]
    /\ Unregistered(c)
    /\ UNCHANGED <<cacheVars, opVars, lipVars, appVars, httpVars, convVars, clientOpen, pending, framesLeft,
                   local, sent, trace, turnNo>>

\* a step of process_text_input raised: control is in its except clause,
\* about to send the error event
Raised(c) ==
    /\ pc' = [pc EXCEPT ![c] = "send_error"]
    /\ local' = [local EXCEPT ![c].raised = TRUE]

\* conversation.add_turn(...) on the connection's ConversationState
AddToHistory(c, response_text) ==
    conversations' = [conversations EXCEPT ![c] =
        AddTurn(@, Turn(local[c].text, response_text,
                        local[c].emotion_data.emotion, now))]

\* `if cached_response:` (line 132)
UseCacheNever(cached_response) == FALSE
UseCache(cached_response) == cached_response # None

\* send emotion_detected (lines 125-129), then lines 131-155: on a cache hit
\* the cached text is the response and the turn is added to the history; on
\* a miss the language model is called
SendEmotion(c) ==
    /\ pc[c] = "send_emotion"
    /\ IF ~clientOpen[c]
       THEN /\ Raised(c)
            /\ UNCHANGED <<sent, trace, conversations>>
       ELSE IF UseCache(local[c].cached_response)
       THEN /\ Emit(c, EvEmotion(local[c].emotion_data), turnNo[c])
            /\ local' = [local EXCEPT
                   ![c].response_text = local[c].cached_response.text,
                   ![c].hit = TRUE]
            /\ AddToHistory(c, local[c].cached_response.text)
            /\ pc' = [pc EXCEPT ![c] = "send_text"]
       ELSE /\ sent' = [sent EXCEPT ![c] = EvEmotion(local[c].emotion_data)]
            /\ trace' = [trace EXCEPT ![c] =
                   @ \o <<Tr("emotion_detected", turnNo[c]), Tr("call_llm", turnNo[c])>>]
            /\ pc' = [pc EXCEPT ![c] = "llm_wait"]
            /\ UNCHANGED <<local, conversations>>
    /\ UNCHANGED <<cacheVars, opVars, lipVars, appVars, httpVars, added, connections, clientOpen, pending,
                   framesLeft, turnNo>>

\* llm_service.generate_response returns (a reply of the endpoint, or the
\* canned reply after any error), then lines 142-155: the reply is cached
\* and the turn is added to the history
LLMReturnPropagates(c, outcome) ==
    /\ pc[c] = "llm_wait"
    /\ local' = [local EXCEPT ![c].llm = IF outcome.ok THEN "reply" ELSE "fallback",
                              ![c].response_text = outcome.reply]
    /\ pc' = [pc EXCEPT ![c] = IF outcome.ok THEN "send_text" ELSE "send_error"]
    /\ trace' = [trace EXCEPT ![c] = Append(@, Tr("return_llm", turnNo[c]))]
    /\ UNCHANGED <<cacheVars, opVars, lipVars, appVars, httpVars, convVars, connections, clientOpen,
                   pending, framesLeft, sent, turnNo>>
LLMReturnCachesReplies(c, outcome) ==
    /\ pc[c] = "llm_wait"
    /\ LET response_text == IF outcome.ok THEN outcome.reply
                            ELSE MockResponse(local[c].text)
       IN  /\ cache' = IF outcome.ok
                       THEN SetCache(cache, local[c].cache_key, [text |-> response_text],
                                     now, max_size)
                       ELSE cache
           /\ local' = [local EXCEPT
                  ![c].response_text = response_text,
                  ![c].llm = IF outcome.ok THEN "reply" ELSE "fallback"]
           /\ AddToHistory(c, response_text)
    /\ trace' = [trace EXCEPT ![c] = Append(@, Tr("return_llm", turnNo[c]))]
    /\ pc' = [pc EXCEPT ![c] = "send_text"]
    /\ UNCHANGED <<hits, misses, max_size, ttl_seconds, now, opVars, lipVars, appVars, httpVars, added, connections,
                   clientOpen, pending, framesLeft, sent, turnNo>>
LLMReturn(c, outcome) ==
    /\ pc[c] = "llm_wait"
    /\ LET response_text == IF outcome.ok THEN outcome.reply
                            ELSE MockResponse(local[c].text)
       IN  /\ cache' = SetCache(cache, local[c].cache_key, [text |-> response_text],
                                now, max_size)
           /\ local' = [local EXCEPT
                  ![c].response_text = response_text,
                  ![c].llm = IF outcome.ok THEN "reply" ELSE "fallback"]
           /\ AddToHistory(c, response_text)
    /\ trace' = [trace EXCEPT ![c] = Append(@, Tr("return_llm", turnNo[c]))]
    /\ pc' = [pc EXCEPT ![c] = "send_text"]
    /\ UNCHANGED <<hits, misses, max_size, ttl_seconds, now, opVars, lipVars, appVars, httpVars, added, connections,
                   clientOpen, pending, framesLeft, sent, turnNo>>

\* send response_text (lines 158-161), then tts_service.synthesize is called
SendText(c) ==
    /\ pc[c] = "send_text"
    /\ IF ~clientOpen[c]
       THEN /\ Raised(c)
            /\ UNCHANGED <<sent, trace>>
       ELSE /\ sent' = [sent EXCEPT ![c] = EvText(local[c].response_text)]
            /\ trace' = [trace EXCEPT ![c] =
                   @ \o <<Tr("response_text", turnNo[c]), Tr("call_tts", turnNo[c])>>]
            /\ pc' = [pc EXCEPT ![c] = "tts_wait"]
            /\ UNCHANGED local
    /\ UNCHANGED <<cacheVars, opVars, lipVars, appVars, httpVars, convVars, connections, clientOpen, pending,
                   framesLeft, turnNo>>

\* tts_service.synthesize returns, then generate_visemes (lines 165-172)
TTSReturn(c, outcome) ==
    /\ pc[c] = "tts_wait"
    /\ LET tts_result == Synthesize(local[c].response_text, outcome)
       IN  local' = [local EXCEPT
               ![c].tts_result = tts_result,
               ![c].tts_outcome = outcome,
               ![c].visemes = GenerateVisemes(local[c].response_text, tts_result.duration)]
    /\ pc' = [pc EXCEPT ![c] = "send_lipsync"]
    /\ UNCHANGED <<cacheVars, opVars, lipVars, appVars, httpVars, convVars, connections, clientOpen, pending,
                   framesLeft, sent, trace, turnNo>>

\* send lip_sync_data (lines 175-179)
SendLipSync(c) ==
    /\ pc[c] = "send_lipsync"
    /\ IF ~clientOpen[c]
       THEN /\ Raised(c)
            /\ UNCHANGED <<sent, trace>>
       ELSE /\ Emit(c, EvLipSync(local[c].visemes, local[c].tts_result.duration),
                    turnNo[c])
            /\ pc' = [pc EXCEPT ![c] = "send_audio"]
            /\ UNCHANGED local
    /\ UNCHANGED <<cacheVars, opVars, lipVars, appVars, httpVars, convVars, connections, clientOpen, pending,
                   framesLeft, turnNo>>

\* send audio_data (lines 182-187)
SendAudio(c) ==
    /\ pc[c] = "send_audio"
    /\ IF ~clientOpen[c]
       THEN /\ Raised(c)
            /\ UNCHANGED <<sent, trace>>
       ELSE /\ Emit(c, EvAudio(B64Encode(local[c].tts_result.audio)), turnNo[c])
            /\ pc' = [pc EXCEPT ![c] = "send_complete"]
            /\ UNCHANGED local
    /\ UNCHANGED <<cacheVars, opVars, lipVars, appVars, httpVars, convVars, connections, clientOpen, pending,
                   framesLeft, turnNo>>

\* send response_complete (lines 190-192); process_text_input returns
SendCompleteSilently(c) ==
    /\ pc[c] = "send_complete"
    /\ pc' = [pc EXCEPT ![c] = "loop"]
    /\ local' = [local EXCEPT ![c] = Returned(@)]
    /\ UNCHANGED <<cacheVars, opVars, lipVars, appVars, httpVars, convVars, connections, clientOpen, pending,
                   framesLeft, turnNo, sent, trace>>
SendComplete(c) ==
    /\ pc[c] = "send_complete"
    /\ IF ~clientOpen[c]
       THEN /\ Raised(c)
            /\ UNCHANGED <<sent, trace>>
       ELSE /\ Emit(c, EvComplete, turnNo[c])
            /\ pc' = [pc EXCEPT ![c] = "loop"]
            /\ local' = [local EXCEPT ![c] = Returned(@)]
    /\ UNCHANGED <<cacheVars, opVars, lipVars, appVars, httpVars, convVars, connections, clientOpen, pending,
                   framesLeft, turnNo>>

\* the except clause of process_text_input (lines 194-199): the error event
\* is sent and the call returns to the loop; if this send raises too, the
\* exception leaves process_text_input and ends the loop
SendErrorAndComplete(c) ==
    /\ pc[c] = "send_error"
    /\ IF clientOpen[c]
       THEN /\ sent' = [sent EXCEPT ![c] = EvComplete]
            /\ trace' = [trace EXCEPT ![c] =
                   @ \o <<Tr("error", turnNo[c]), Tr("response_complete", turnNo[c])>>]
            /\ pc' = [pc EXCEPT ![c] = "loop"]
            /\ UNCHANGED connections
       ELSE /\ Unregistered(c)
            /\ UNCHANGED <<sent, trace>>
    /\ local' = [local EXCEPT ![c] = Returned(@)]
    /\ UNCHANGED <<cacheVars, opVars, lipVars, appVars, httpVars, convVars, clientOpen, pending, framesLeft, turnNo>>
SendError(c) ==
    /\ pc[c] = "send_error"
    /\ IF clientOpen[c]
       THEN /\ Emit(c, EvTurnError, turnNo[c])
            /\ pc' = [pc EXCEPT ![c] = "loop"]
            /\ UNCHANGED connections
       ELSE /\ Unregistered(c)
            /\ UNCHANGED <<sent, trace>>
    /\ local' = [local EXCEPT ![c] = Returned(@)]
    /\ UNCHANGED <<cacheVars, opVars, lipVars, appVars, httpVars, convVars, clientOpen, pending, framesLeft, turnNo>>

Next ==
    \/ \E c \in Conns : Connect(c)
    \/ \E c \in Conns : SendGreeting(c)
    \/ \E c \in Conns : ClientSend(c)
    \/ \E c \in Conns : ClientDisconnect(c)
    \/ \E c \in Conns, text \in Texts, er \in EmotionResults : ReceiveText(c, text, er)
    \/ \E c \in Conns : ReceiveNonString(c)
    \/ \E c \in Conns : ReceiveInvalid(c)
    \/ \E c \in Conns : ConnError(c)
    \/ \E c \in Conns, cmd \in ControlCommands : ReceiveControl(c, cmd)
    \/ \E c \in Conns : SendControl(c)
    \/ \E c \in Conns : ReceiveIgnored(c)
    \/ \E c \in Conns : ReceiveDisconnect(c)
    \/ \E c \in Conns : SendEmotion(c)
    \/ \E c \in Conns, outcome \in LLMOutcomes : LLMReturn(c, outcome)
    \/ \E c \in Conns : SendText(c)
    \/ \E c \in Conns, outcome \in TtsOutcomes : TTSReturn(c, outcome)
    \/ \E c \in Conns : SendLipSync(c)
    \/ \E c \in Conns : SendAudio(c)
    \/ \E c \in Conns : SendComplete(c)
    \/ \E c \in Conns : SendError(c)
    \/ TickServer

Spec == Init /\ [][Next]_vars

----------------------------------------------------------------------------
(* The HTTP chat interface: chat_endpoint and process_text_query.          *)

\* what the "text" of a request body can be: absent (or null), a string, or
\* another JSON value that is not falsy (a number, a list)
RequestKinds == {"absent", "str", "other"}
RequestTexts == {TextEmpty, KeyHi, KeyHiRaw}

\* `if not text:` of chat_endpoint (line 226)
RejectedIfAbsent(kind, text) == kind = "absent"
Rejected(kind, text) == kind = "absent" \/ (kind = "str" /\ text = TextEmpty)

\* the result of process_text_query (lines 227-231) and that of its except
\* clause (lines 243-247)
QueryResultNeverCached(response_text, emotion_data, cached) ==
    [response |-> response_text, emotion |-> emotion_data.emotion, cached |-> FALSE]
QueryResult(response_text, emotion_data, cached) ==
    [response |-> response_text, emotion |-> emotion_data.emotion,
     cached |-> cached # None]
ErrorResult == [response |-> "I apologize", error |-> "AttributeError"]

\* lines 234-237: result["audio"], result["audio_format"]
WithAudio(result, tts_result) ==
    [response |-> result.response, emotion |-> result.emotion,
     cached |-> result.cached, audio |-> B64Encode(tts_result.audio),
     audio_format |-> "mp3"]

\* the request is answered with result (status 200)
Answered(h, result) == [h EXCEPT !.pc = "done", !.status = 200, !.result = result]

\* after the result is built (line 233): synthesize if include_audio, else
\* return
AfterResult(h, result) ==
    IF h.include_audio
    THEN [h EXCEPT !.pc = "tts_wait", !.result = result, !.calls = @ \cup {"tts"}]
    ELSE Answered(h, result)

\* POST /api/chat: chat_endpoint, then process_text_query up to its first
\* suspension: the emotion is detected, the cache is read, and on a hit the
\* result is built.  A text that is no string makes text.lower() raise
\* (line 209) after detect_from_text has caught its own exception.
ChatRequest(kind, text, include_audio, er) ==
    /\ http.pc \in {"idle", "done"}
    /\ framesLeft > 0
    /\ framesLeft' = framesLeft - 1
    /\ LET h == [NoRequest EXCEPT !.n = http.n + 1, !.kind = kind,
                                   !.include_audio = include_audio]
       IN  IF Rejected(kind, text)
           THEN /\ http' = [h EXCEPT !.pc = "done", !.status = 400]
                /\ UNCHANGED <<cache, hits, misses>>
           ELSE IF kind = "other"
           THEN /\ http' = Answered([h EXCEPT !.calls = {"emotion"}], ErrorResult)
                /\ UNCHANGED <<cache, hits, misses>>
           ELSE LET key == CacheKey(text)
                    got == GetValue(cache, key, now, ttl_seconds)
                    q   == [h EXCEPT !.text = text, !.emotion_data = er,
                                     !.cache_key = key, !.cached = got,
                                     !.calls = {"emotion"}]
                IN  /\ cache' = GetCache(cache, key, now, ttl_seconds)
                    /\ hits' = IF got # None THEN hits + 1 ELSE hits
                    /\ misses' = IF got # None THEN misses ELSE misses + 1
                    /\ http' = IF UseCache(got)
                               THEN AfterResult([q EXCEPT !.response_text = got.text],
                                                QueryResult(got.text, er, got))
                               ELSE [q EXCEPT !.pc = "llm_wait",
                                              !.calls = @ \cup {"llm"}]
    /\ UNCHANGED <<max_size, ttl_seconds, now, opVars, lipVars, appVars, convVars, connections, pc,
                   clientOpen, pending, local, sent, trace, turnNo>>

\* generate_response returns to process_text_query (lines 216-226): the
\* reply is cached and the result is built
ChatLLMReturn(outcome) ==
    /\ http.pc = "llm_wait"
    /\ LET response_text == IF outcome.ok THEN outcome.reply
                            ELSE MockResponse(http.text)
       IN  /\ cache' = SetCache(cache, http.cache_key, [text |-> response_text],
                                now, max_size)
           /\ http' = AfterResult(
                  [http EXCEPT !.response_text = response_text, !.stored_at = now],
                  QueryResult(response_text, http.emotion_data, http.cached))
    /\ UNCHANGED <<hits, misses, max_size, ttl_seconds, now, opVars, lipVars, appVars, convVars, connVars>>

\* synthesize returns to process_text_query (lines 234-239)
ChatTTSReturn(outcome) ==
    /\ http.pc = "tts_wait"
    /\ http' = Answered(http, WithAudio(http.result,
                                        Synthesize(http.response_text, outcome)))
    /\ UNCHANGED <<cacheVars, opVars, lipVars, appVars, convVars, connVars>>

----------------------------------------------------------------------------
(* SpecHttp: the HTTP interface next to one WebSocket client, on one       *)
(* server.  The client sends text_input frames with one query, as typed or *)
(* normalized, and stays connected, and the adapters answer its turns; the *)
(* requests and their adapter outcomes are any.                            *)

SharedTexts   == {KeyHi, KeyHiRaw, KeyTh}
SharedEmotion == [emotion |-> "joy", confidence |-> 70]
SharedReply   == [ok |-> TRUE, reply |-> ReplyOk]

InitHttp ==
    /\ InitCacheObject
    /\ max_size = ServerMaxSize
    /\ ttl_seconds = ServerTtl
    /\ ops = <<>>
    /\ nOps = 0
    /\ nGets = 0
    /\ conversations = <<>>
    /\ added = <<>>
    /\ InitConnections({ConnOrder[1]}, HttpInputs)
    /\ http = NoRequest
    /\ lip = NewLipSync
    /\ TTS_AVAILABLE = TRUE

NextHttp ==
    \/ \E c \in Conns : Connect(c)
    \/ \E c \in Conns : SendGreeting(c)
    \/ \E c \in Conns : ClientSend(c)
    \/ \E c \in Conns, text \in SharedTexts : ReceiveText(c, text, SharedEmotion)
    \/ \E c \in Conns : SendEmotion(c)
    \/ \E c \in Conns : LLMReturn(c, SharedReply)
    \/ \E c \in Conns : SendText(c)
    \/ \E c \in Conns : TTSReturn(c, "audio")
    \/ \E c \in Conns : SendLipSync(c)
    \/ \E c \in Conns : SendAudio(c)
    \/ \E c \in Conns : SendComplete(c)
    \/ \E kind \in RequestKinds, text \in RequestTexts, ia \in BOOLEAN, er \in EmotionResults :
           ChatRequest(kind, text, ia, er)
    \/ \E outcome \in LLMOutcomes : ChatLLMReturn(outcome)
    \/ \E outcome \in TtsOutcomes : ChatTTSReturn(outcome)
    \/ TickServer

SpecHttp == InitHttp /\ [][NextHttp]_vars

----------------------------------------------------------------------------
(* SpecShared: two WebSocket clients and the HTTP interface on one server, *)
(* sharing its cache.  Frames and requests carry one query, as typed or    *)
(* normalized; the clients stay connected; the adapters answer.            *)

InitShared ==
    /\ InitCacheObject
    /\ max_size = ServerMaxSize
    /\ ttl_seconds = ServerTtl
    /\ ops = <<>>
    /\ nOps = 0
    /\ nGets = 0
    /\ conversations = <<>>
    /\ added = <<>>
    /\ InitConnections({ConnOrder[1], ConnOrder[2]}, SharedInputs)
    /\ http = NoRequest
    /\ lip = NewLipSync
    /\ TTS_AVAILABLE = TRUE

NextShared ==
    \/ \E c \in Conns : Connect(c)
    \/ \E c \in Conns : SendGreeting(c)
    \/ \E c \in Conns : ClientSend(c)
    \/ \E c \in Conns, text \in SharedTexts : ReceiveText(c, text, SharedEmotion)
    \/ \E c \in Conns : SendEmotion(c)
    \/ \E c \in Conns : LLMReturn(c, SharedReply)
    \/ \E c \in Conns : SendText(c)
    \/ \E c \in Conns : TTSReturn(c, "audio")
    \/ \E c \in Conns : SendLipSync(c)
    \/ \E c \in Conns : SendAudio(c)
    \/ \E c \in Conns : SendComplete(c)
    \/ \E text \in SharedTexts : ChatRequest("str", text, FALSE, SharedEmotion)
    \/ ChatLLMReturn(SharedReply)
    \/ TickServer

SpecShared == InitShared /\ [][NextShared]_vars

----------------------------------------------------------------------------
(* SpecFallback: two WebSocket clients on one server whose language model  *)
(* adapter answers or fails, call by call.  The cache has room for the     *)
(* two keys the queries have.                                              *)

InitFallback ==
    /\ InitCacheObject
    /\ max_size = ServerMaxSize + 1
    /\ ttl_seconds = ServerTtl
    /\ ops = <<>>
    /\ nOps = 0
    /\ nGets = 0
    /\ conversations = <<>>
    /\ added = <<>>
    /\ InitConnections({ConnOrder[1], ConnOrder[2]}, SharedInputs)
    /\ http = NoRequest
    /\ lip = NewLipSync
    /\ TTS_AVAILABLE = TRUE

NextFallback ==
    \/ \E c \in Conns : Connect(c)
    \/ \E c \in Conns : SendGreeting(c)
    \/ \E c \in Conns : ClientSend(c)
    \/ \E c \in Conns, text \in {KeyHi, KeyTh} : ReceiveText(c, text, SharedEmotion)
    \/ \E c \in Conns : SendEmotion(c)
    \/ \E c \in Conns, outcome \in LLMOutcomes : LLMReturn(c, outcome)
    \/ \E c \in Conns : SendText(c)
    \/ \E c \in Conns : TTSReturn(c, "audio")
    \/ \E c \in Conns : SendLipSync(c)
    \/ \E c \in Conns : SendAudio(c)
    \/ \E c \in Conns : SendComplete(c)
    \/ TickServer

SpecFallback == InitFallback /\ [][NextFallback]_vars

----------------------------------------------------------------------------
(* SpecReuse: two WebSocket clients that connect, talk, send control       *)
(* frames, disconnect and connect again.  ws_manager.register names a      *)
(* connection str(uuid.uuid4())[:8], eight hexadecimal digits drawn at     *)
(* random: the id of a new connection can be one that an earlier           *)
(* connection had, and orchestrator.conversations still holds the          *)
(* ConversationState made under that id.                                   *)

\* accept and ws_manager.register of a new websocket whose id is the id of
\* a connection that has ended: the task, the transport and the locals are
\* new, the id is not
ConnectReusingId(c) ==
    /\ pc[c] = "closed"
    /\ connections' = connections \cup {c}
    /\ pc' = [pc EXCEPT ![c] = "greet"]
    /\ clientOpen' = [clientOpen EXCEPT ![c] = TRUE]
    /\ pending' = [pending EXCEPT ![c] = 0]
    /\ local' = [local EXCEPT ![c] = NoLocal]
    /\ sent' = [sent EXCEPT ![c] = None]
    /\ trace' = [trace EXCEPT ![c] = <<>>]
    /\ turnNo' = [turnNo EXCEPT ![c] = 0]
    /\ UNCHANGED <<cacheVars, opVars, lipVars, appVars, httpVars, convVars, framesLeft>>

NextReuse ==
    \/ \E c \in Conns : Connect(c)
    \/ \E c \in Conns : ConnectReusingId(c)
    \/ \E c \in Conns : SendGreeting(c)
    \/ \E c \in Conns : ClientSend(c)
    \/ \E c \in Conns : ClientDisconnect(c)
    \/ \E c \in Conns : ReceiveText(c, KeyHi, SharedEmotion)
    \/ \E c \in Conns : ReceiveControl(c, "ping")
    \/ \E c \in Conns : SendControl(c)
    \/ \E c \in Conns : ReceiveDisconnect(c)
    \/ \E c \in Conns : SendEmotion(c)
    \/ \E c \in Conns : LLMReturn(c, SharedReply)
    \/ \E c \in Conns : SendText(c)
    \/ \E c \in Conns : TTSReturn(c, "audio")
    \/ \E c \in Conns : SendLipSync(c)
    \/ \E c \in Conns : SendAudio(c)
    \/ \E c \in Conns : SendComplete(c)
    \/ \E c \in Conns : SendError(c)

SpecReuse == InitShared /\ [][NextReuse]_vars

----------------------------------------------------------------------------
(* SpecApp: the single-file entry point src/app.py, a program of its own   *)
(* with its own services: one WebSocket client and the HTTP chat interface *)
(* on one process, sharing response_cache.  cache is response_cache.cache, *)
(* ttl_seconds its ttl; pc, local, sent, trace and http play the parts     *)
(* they play for main.py.  TTS_AVAILABLE is fixed when the module is       *)
(* imported.                                                               *)

\* ResponseCache.get of app.py: the entry under key.lower().strip(), if it
\* is younger than ttl
AppCacheGet(c, key, t, ttl) ==
    LET k == Strip(Lower(key))
    IN  IF \E i \in 1..Len(c) : c[i].key = k /\ t - c[i].time < ttl
        THEN c[CHOOSE i \in 1..Len(c) : c[i].key = k].value
        ELSE None

\* ResponseCache.set of app.py
AppCacheSet(c, key, value, t) ==
    LET k == Strip(Lower(key))
        e == [key |-> k, value |-> value, time |-> t]
    IN  IF \E i \in 1..Len(c) : c[i].key = k
        THEN [c EXCEPT ![CHOOSE i \in 1..Len(c) : c[i].key = k] = e]
        ELSE Append(c, e)

\* LLMService._mock_response of app.py, for a text that names no product;
\* the canned text is cut to its first words
AppMockResponse(text) ==
    <<"T", "h", "a", "n", "k", " ", "y", "o", "u", " ", "'">> \o text \o <<"'">>

\* LLMService.generate of app.py: the reply of the endpoint, or the canned
\* text (no credentials, another status, an exception); it does not raise
AppReplies(text) == {ReplyOk, AppMockResponse(text)}

\* LipSyncService of app.py: one viseme per character kept, no digraph and
\* no closing silence
AppPhonemeTable ==
    [a |-> "AA", e |-> "E", i |-> "I", o |-> "O", u |-> "U",
     b |-> "PP", p |-> "PP", m |-> "PP",
     f |-> "FF", v |-> "FF",
     d |-> "DD", t |-> "DD", n |-> "DD",
     k |-> "kk", g |-> "kk",
     s |-> "SS", z |-> "SS",
     r |-> "RR", l |-> "DD"]

AppGenerateVisemes(text, duration) ==
    LET l     == Lower(text)
        clean == Pick(l, {i \in 1..Len(l) : IsLower(l[i]) \/ l[i] \in Whitespace}, 1)
        per   == IF duration > 0 THEN [num |-> duration, den |-> Len(clean)]
                 ELSE [num |-> FallbackPerPhonemeMs, den |-> 1]
    IN  [i \in 1..Len(clean) |->
            [start |-> RoundMs((i - 1) * per.num, per.den),
             end   |-> RoundMs(i * per.num, per.den),
             value |-> IF clean[i] \in DOMAIN AppPhonemeTable
                       THEN AppPhonemeTable[clean[i]] ELSE "sil"]]

AppGreeting(c) == [type |-> "greeting", connection_id |-> c,
                   features |-> [tts |-> TTS_AVAILABLE]]

\* await websocket.send_json(greeting) (lines 376-384); a send that raises
\* leaves the loop by except Exception, and finally disconnects
AppSendGreeting(c) ==
    /\ pc[c] = "greet"
    /\ IF clientOpen[c]
       THEN /\ Emit(c, AppGreeting(c), 0)
            /\ pc' = [pc EXCEPT ![c] = "loop"]
            /\ UNCHANGED connections
       ELSE /\ Unregistered(c)
            /\ UNCHANGED <<sent, trace>>
    /\ UNCHANGED <<cacheVars, opVars, lipVars, appVars, httpVars, convVars, clientOpen,
                   pending, framesLeft, local, turnNo>>

\* receive() of a text_input or transcription frame (lines 387-397): the
\* emotion is detected
AppReceiveText(c, text, er) ==
    /\ AtReceive(c)
    /\ pending[c] > 0
    /\ pending' = [pending EXCEPT ![c] = @ - 1]
    /\ turnNo' = [turnNo EXCEPT ![c] = @ + 1]
    /\ local' = [local EXCEPT ![c] =
           [NoLocal EXCEPT !.text = text, !.emotion_data = er, !.classified = text,
                           !.kind = "str", !.started = now]]
    /\ trace' = [trace EXCEPT ![c] = Append(@, Tr("call_emotion", turnNo[c] + 1))]
    /\ pc' = [pc EXCEPT ![c] = "send_emotion"]
    /\ UNCHANGED <<cacheVars, opVars, lipVars, appVars, httpVars, convVars, connections,
                   clientOpen, framesLeft, sent>>

\* send emotion_detected (lines 398-402), then lines 404-411: the cache is
\* read; on a hit the "response" of the entry is the reply, on a miss the
\* language model is called
AppSendEmotion(c) ==
    /\ pc[c] = "send_emotion"
    /\ IF ~clientOpen[c]
       THEN /\ Unregistered(c)
            /\ UNCHANGED <<sent, trace, local>>
       ELSE LET cached == AppCacheGet(cache, local[c].text, now, ttl_seconds)
            IN  /\ sent' = [sent EXCEPT ![c] = EvEmotion(local[c].emotion_data)]
                /\ UNCHANGED connections
                /\ IF cached # None
                   THEN /\ local' = [local EXCEPT
                               ![c].cached_response = cached,
                               ![c].response_text =
                                   IF "response" \in DOMAIN cached
                                   THEN cached.response ELSE <<>>,
                               ![c].hit = TRUE]
                        /\ trace' = [trace EXCEPT ![c] =
                               Append(@, Tr("emotion_detected", turnNo[c]))]
                        /\ pc' = [pc EXCEPT ![c] = "send_text"]
                   ELSE /\ trace' = [trace EXCEPT ![c] =
                               @ \o <<Tr("emotion_detected", turnNo[c]),
                                      Tr("call_llm", turnNo[c])>>]
                        /\ pc' = [pc EXCEPT ![c] = "llm_wait"]
                        /\ UNCHANGED local
    /\ UNCHANGED <<cacheVars, opVars, lipVars, appVars, httpVars, convVars, clientOpen,
                   pending, framesLeft, turnNo>>

\* llm_service.generate returns (lines 410-411): the reply is cached as
\* {"response": response_text}
AppLLMReturn(c, reply) ==
    /\ pc[c] = "llm_wait"
    /\ cache' = AppCacheSet(cache, local[c].text, [response |-> reply], now)
    /\ local' = [local EXCEPT ![c].response_text = reply,
                              ![c].llm = IF reply = ReplyOk THEN "reply" ELSE "fallback"]
    /\ trace' = [trace EXCEPT ![c] = Append(@, Tr("return_llm", turnNo[c]))]
    /\ pc' = [pc EXCEPT ![c] = "send_text"]
    /\ UNCHANGED <<hits, misses, max_size, ttl_seconds, now, opVars, lipVars, appVars,
                   httpVars, convVars, connections, clientOpen, pending, framesLeft,
                   sent, turnNo>>

\* send response_text (lines 414-417), then `if TTS_AVAILABLE:` (line 420):
\* synthesize is called, or the turn goes on to response_complete
AppSendText(c) ==
    /\ pc[c] = "send_text"
    /\ IF ~clientOpen[c]
       THEN /\ Unregistered(c)
            /\ UNCHANGED <<sent, trace>>
       ELSE /\ sent' = [sent EXCEPT ![c] = EvText(local[c].response_text)]
            /\ UNCHANGED connections
            /\ IF TTS_AVAILABLE
               THEN /\ trace' = [trace EXCEPT ![c] =
                           @ \o <<Tr("response_text", turnNo[c]),
                                  Tr("call_tts", turnNo[c])>>]
                    /\ pc' = [pc EXCEPT ![c] = "tts_wait"]
               ELSE /\ trace' = [trace EXCEPT ![c] =
                           Append(@, Tr("response_text", turnNo[c]))]
                    /\ pc' = [pc EXCEPT ![c] = "send_complete"]
    /\ UNCHANGED <<cacheVars, opVars, lipVars, appVars, httpVars, convVars, clientOpen,
                   pending, framesLeft, local, turnNo>>

\* tts_service.synthesize returns its bytes, empty after any error (lines
\* 421-426): `if audio_data:` guards the visemes and both sends
AppTTSReturn(c, audio) ==
    /\ pc[c] = "tts_wait"
    /\ LET duration == WordCount(local[c].response_text) * MsPerWord
       IN  local' = [local EXCEPT
               ![c].tts_result = [audio |-> audio, duration |-> duration],
               ![c].tts_outcome = IF audio # <<>> THEN "audio" ELSE "empty",
               ![c].visemes = IF audio # <<>>
                              THEN AppGenerateVisemes(local[c].response_text, duration)
                              ELSE <<>>]
    /\ pc' = [pc EXCEPT ![c] = IF audio # <<>> THEN "send_lipsync" ELSE "send_complete"]
    /\ UNCHANGED <<cacheVars, opVars, lipVars, appVars, httpVars, convVars, connections,
                   clientOpen, pending, framesLeft, sent, trace, turnNo>>

\* the sends of lines 428-444, each an await: lip_sync_data, audio_data and
\* response_complete, after which the loop receives again
AppSend(c, at, ev, next) ==
    /\ pc[c] = at
    /\ IF ~clientOpen[c]
       THEN /\ Unregistered(c)
            /\ UNCHANGED <<sent, trace, local>>
       ELSE /\ Emit(c, ev, IF at = "send_control" THEN 0 ELSE turnNo[c])
            /\ pc' = [pc EXCEPT ![c] = next]
            /\ local' = IF next = "loop" THEN [local EXCEPT ![c] = Returned(@)]
                        ELSE local
            /\ UNCHANGED connections
    /\ UNCHANGED <<cacheVars, opVars, lipVars, appVars, httpVars, convVars, clientOpen,
                   pending, framesLeft, turnNo>>

AppSendLipSync(c) ==
    AppSend(c, "send_lipsync",
            EvLipSync(local[c].visemes, local[c].tts_result.duration), "send_audio")
AppSendAudio(c) ==
    AppSend(c, "send_audio", EvAudio(B64Encode(local[c].tts_result.audio)),
            "send_complete")
AppSendComplete(c) == AppSend(c, "send_complete", EvComplete, "loop")

\* a control frame with the command ping (lines 446-449): pong is sent
AppReceivePing(c) ==
    /\ AtReceive(c)
    /\ pending[c] > 0
    /\ pending' = [pending EXCEPT ![c] = @ - 1]
    /\ pc' = [pc EXCEPT ![c] = "send_control"]
    /\ UNCHANGED <<cacheVars, opVars, lipVars, appVars, httpVars, convVars, connections,
                   clientOpen, framesLeft, local, sent, trace, turnNo>>
AppSendPong(c) == AppSend(c, "send_control", [type |-> "pong"], "loop")

\* POST /api/chat of app.py (lines 327-364) up to its first await: no text
\* is status 400; a cache hit returns {**cached, "cached": True} before any
\* emotion is detected; on a miss the emotion is detected and the language
\* model called
AppChatRequest(kind, text, include_audio, er) ==
    /\ http.pc \in {"idle", "done"}
    /\ framesLeft > 0
    /\ framesLeft' = framesLeft - 1
    /\ LET h == [NoRequest EXCEPT !.n = http.n + 1, !.kind = kind, !.text = text,
                                   !.include_audio = include_audio]
           cached == AppCacheGet(cache, text, now, ttl_seconds)
       IN  http' = IF kind = "absent" \/ text = <<>>
                   THEN [h EXCEPT !.pc = "done", !.status = 400]
                   ELSE IF cached # None
                   THEN [h EXCEPT !.pc = "done", !.status = 200, !.cached = cached,
                                  !.result = [cached |-> TRUE] @@ cached]
                   ELSE [h EXCEPT !.pc = "llm_wait", !.emotion_data = er,
                                  !.calls = {"emotion", "llm"}]
    /\ UNCHANGED <<cacheVars, opVars, lipVars, appVars, convVars, connections, pc,
                   clientOpen, pending, local, sent, trace, turnNo>>

\* the result dict of lines 346-351
AppResult(response_text, er) ==
    [response |-> response_text, emotion |-> er.emotion,
     confidence |-> er.confidence, cached |-> FALSE]

\* llm_service.generate returns to chat_endpoint (lines 344-364): the result
\* is built; with include_audio and TTS_AVAILABLE synthesize is called, else
\* the result is cached and returned
AppChatLLMReturn(reply) ==
    /\ http.pc = "llm_wait"
    /\ LET result == AppResult(reply, http.emotion_data)
       IN  IF http.include_audio /\ TTS_AVAILABLE
           THEN /\ http' = [http EXCEPT !.pc = "tts_wait", !.response_text = reply,
                                        !.result = result, !.calls = @ \cup {"tts"}]
                /\ UNCHANGED cache
           ELSE /\ http' = [http EXCEPT !.pc = "done", !.status = 200,
                                        !.response_text = reply, !.result = result,
                                        !.stored_at = now]
                /\ cache' = AppCacheSet(cache, http.text, result, now)
    /\ UNCHANGED <<hits, misses, max_size, ttl_seconds, now, opVars, lipVars, appVars,
                   convVars, connVars>>

\* synthesize returns to chat_endpoint (lines 355-364): audio that is not
\* empty is added to the result, which is cached and returned
AppChatTTSReturn(audio) ==
    /\ http.pc = "tts_wait"
    /\ LET result == IF audio # <<>>
                     THEN [audio |-> B64Encode(audio), audio_format |-> "mp3"]
                              @@ http.result
                     ELSE http.result
       IN  /\ http' = [http EXCEPT !.pc = "done", !.status = 200, !.result = result,
                                   !.stored_at = now]
           /\ cache' = AppCacheSet(cache, http.text, result, now)
    /\ UNCHANGED <<hits, misses, max_size, ttl_seconds, now, opVars, lipVars, appVars,
                   convVars, connVars>>

InitApp ==
    /\ InitCacheObject
    /\ max_size = ServerMaxSize
    /\ ttl_seconds = ServerTtl
    /\ ops = <<>>
    /\ nOps = 0
    /\ nGets = 0
    /\ conversations = <<>>
    /\ added = <<>>
    /\ InitConnections({ConnOrder[1]}, SharedInputs)
    /\ http = NoRequest
    /\ lip = NewLipSync
    /\ TTS_AVAILABLE \in BOOLEAN

NextApp ==
    \/ \E c \in Conns : Connect(c)
    \/ \E c \in Conns : AppSendGreeting(c)
    \/ \E c \in Conns : ClientSend(c)
    \/ \E c \in Conns : ClientDisconnect(c)
    \/ \E c \in Conns, text \in {KeyHi, KeyHiRaw} :
           AppReceiveText(c, text, SharedEmotion)
    \/ \E c \in Conns : AppReceivePing(c)
    \/ \E c \in Conns : AppSendPong(c)
    \/ \E c \in Conns : ReceiveDisconnect(c)
    \/ \E c \in Conns : AppSendEmotion(c)
    \/ \E c \in Conns : \E reply \in AppReplies(local[c].text) : AppLLMReturn(c, reply)
    \/ \E c \in Conns : AppSendText(c)
    \/ \E c \in Conns, audio \in {AudioBytes, <<>>} : AppTTSReturn(c, audio)
    \/ \E c \in Conns : AppSendLipSync(c)
    \/ \E c \in Conns : AppSendAudio(c)
    \/ \E c \in Conns : AppSendComplete(c)
    \/ \E kind \in {"absent", "str"}, text \in {KeyHi, KeyHiRaw},
          ia \in BOOLEAN, er \in EmotionResults :
           AppChatRequest(kind, text, ia, er)
    \/ \E reply \in AppReplies(http.text) : AppChatLLMReturn(reply)
    \/ \E audio \in {AudioBytes, <<>>} : AppChatTTSReturn(audio)
    \/ TickServer

SpecApp == InitApp /\ [][NextApp]_vars

----------------------------------------------------------------------------
(* SpecStall: SpecShared under fair scheduling, with adapter calls that    *)
(* may never return.  The event loop runs every task that is ready; the    *)
(* adapters of the second connection always answer, those of the first may *)
(* stall.  A stalled language model or synthesis call leaves its task      *)
(* suspended at an await.  detect_from_text has no await (it calls the     *)
(* classifier pipeline directly), so a classifier call that does not       *)
(* return keeps the event loop: no task takes a step.                      *)

\* no task is inside a step that does not end
LoopFree == \A c \in Conns : pc[c] # "classify"

\* receive() of a text frame and process_text_input up to line 123, where
\* the classifier call does not return
ReceiveTextStalls(c, text) ==
    /\ AtReceive(c)
    /\ pending[c] > 0
    /\ pending' = [pending EXCEPT ![c] = @ - 1]
    /\ turnNo' = [turnNo EXCEPT ![c] = @ + 1]
    /\ conversations' = IF c \in DOMAIN conversations THEN conversations
                        ELSE (c :> <<>>) @@ conversations
    /\ LET key == CacheKey(text)
           got == GetValue(cache, key, now, ttl_seconds)
       IN  /\ cache' = GetCache(cache, key, now, ttl_seconds)
           /\ hits' = IF got # None THEN hits + 1 ELSE hits
           /\ misses' = IF got # None THEN misses ELSE misses + 1
           /\ local' = [local EXCEPT ![c] =
                  [NoLocal EXCEPT !.text = text, !.cache_key = key,
                                  !.cached_response = got,
                                  !.classified = EmotionInput(text, key),
                                  !.kind = "str", !.started = now]]
    /\ trace' = [trace EXCEPT ![c] = Append(@, Tr("call_emotion", turnNo[c] + 1))]
    /\ pc' = [pc EXCEPT ![c] = "classify"]
    /\ UNCHANGED <<max_size, ttl_seconds, now, opVars, lipVars, appVars, httpVars, added, connections,
                   clientOpen, framesLeft, sent>>

\* the steps of the task of connection c that need no adapter to answer
TaskStep(c) ==
    \/ Connect(c)
    \/ SendGreeting(c)
    \/ \E text \in SharedTexts : ReceiveText(c, text, SharedEmotion)
    \/ SendEmotion(c)
    \/ SendText(c)
    \/ SendLipSync(c)
    \/ SendAudio(c)
    \/ SendComplete(c)

NextStall ==
    \/ LoopFree /\ NextShared
    \/ LoopFree /\ \E text \in SharedTexts : ReceiveTextStalls(ConnOrder[1], text)

\* weak fairness of the steps of both tasks and of the returns of the second
\* connection's adapter calls (that of TTSReturn with its enabling condition
\* written out)
FairStall ==
    /\ \A i \in 1..2 : WF_vars(LoopFree /\ TaskStep(ConnOrder[i]))
    /\ WF_vars(LoopFree /\ LLMReturn(ConnOrder[2], SharedReply))
    /\ \/ []<>~(LoopFree /\ pc[ConnOrder[2]] = "tts_wait")
       \/ []<><<LoopFree /\ TTSReturn(ConnOrder[2], "audio")>>_vars

SpecStall == InitShared /\ [][NextStall]_vars /\ FairStall

----------------------------------------------------------------------------
(* What the properties below read off the state.                           *)

AdapterCalls   == {"call_emotion", "call_llm", "call_tts"}
TerminalEvents == {"response_complete", "error"}
InTurnPcs      == {"classify", "send_emotion", "llm_wait", "send_text", "tts_wait",
                   "send_lipsync", "send_audio", "send_complete", "send_error"}

\* process_text_input is running on connection c
InTurn(c) == pc[c] \in InTurnPcs

\* the last call of process_text_input on c is over
TurnOver(c) == turnNo[c] > 0 /\ ~InTurn(c)

\* the trace entries of turn t of connection c
TurnTrace(c, t) == SelectSeq(trace[c], LAMBDA e : e.turn = t)

IsEvent(e) == e.kind \notin AdapterCalls /\ e.kind # "return_llm"

\* the types of the events sent in turn t of connection c, in order
TurnEvents(c, t) ==
    LET evs == SelectSeq(TurnTrace(c, t), IsEvent)
    IN  [i \in 1..Len(evs) |-> evs[i].kind]

\* how many entries of kind k the sequence tr holds
Count(tr, k) == Cardinality({i \in 1..Len(tr) : tr[i].kind = k})

IsPrefix(p, q) == Len(p) <= Len(q) /\ \A i \in 1..Len(p) : p[i] = q[i]

LastOp == ops[Len(ops)]

----------------------------------------------------------------------------
(* C1: a turn of process_text_input in which no step raises sends exactly  *)
(* emotion_detected, response_text, lip_sync_data, audio_data,             *)
(* response_complete, in that order, each once: while it runs its events   *)
(* are a prefix of that sequence, and when it is over they are all of it.  *)
C1_FixedSequence ==
    \A c \in Conns :
        (turnNo[c] > 0 /\ ~local[c].raised) =>
            /\ IsPrefix(TurnEvents(c, turnNo[c]), TurnEventTypes)
            /\ TurnOver(c) => TurnEvents(c, turnNo[c]) = TurnEventTypes

\* a turn without a raise is over, all five events sent
C1_Witness ==
    \E c \in Conns :
        /\ TurnOver(c) /\ ~local[c].raised
        /\ sent[c] = EvComplete
        /\ Len(TurnEvents(c, turnNo[c])) = 5

----------------------------------------------------------------------------
(* C2 as claimed: in a turn in which a step raised, exactly one error      *)
(* event is sent, no response_complete, and nothing after the error.       *)
C2_ExactlyOneError ==
    \A c \in Conns :
        (TurnOver(c) /\ local[c].raised) =>
            LET evs == TurnEvents(c, turnNo[c])
            IN  /\ Cardinality({i \in 1..Len(evs) : evs[i] = "error"}) = 1
                /\ \A i \in 1..Len(evs) : evs[i] # "response_complete"
                /\ evs[Len(evs)] = "error"

(* C2 as amended: in a turn in which a step raised, at most one error      *)
(* event is sent: exactly one, as the turn's last event, when the send of  *)
(* the error event succeeds, and none when that send raises too (the       *)
(* client has closed the transport), in which case the connection's loop   *)
(* ends; response_complete is never sent in such a turn.                   *)
C2_ErrorOrClosed ==
    \A c \in Conns :
        (turnNo[c] > 0 /\ local[c].raised) =>
            LET evs == TurnEvents(c, turnNo[c])
                nErr == Cardinality({i \in 1..Len(evs) : evs[i] = "error"})
            IN  /\ nErr <= 1
                /\ \A i \in 1..Len(evs) : evs[i] # "response_complete"
                /\ nErr = 1 => evs[Len(evs)] = "error"
                /\ TurnOver(c) =>
                      \/ nErr = 1
                      \/ nErr = 0 /\ pc[c] = "closed" /\ ~clientOpen[c]

\* a turn raised (its text was no string) and its error event went out
C2_Witness ==
    \E c \in Conns :
        /\ TurnOver(c) /\ local[c].raised /\ local[c].kind = "other"
        /\ TurnEvents(c, turnNo[c]) = <<"error">>
        /\ pc[c] = "loop"

----------------------------------------------------------------------------
(* C3: two turns with the same query text, one after the other on a        *)
(* connection, the second looking the cache up within the TTL of the       *)
(* first's reply: the language model is called once, in the first turn     *)
(* only, the emotion classifier twice, and the second turn's response_text *)
(* is the first turn's reply.                                              *)
SecondOfTwoIdentical(c) ==
    /\ turnNo[c] = 2 /\ InTurn(c) /\ local[c].kind = "str"
    /\ Count(TurnTrace(c, 1), "return_llm") = 1
    /\ conversations[c][1].user_message = local[c].text
    /\ local[c].started - conversations[c][1].timestamp < ttl_seconds

C3_CacheHitSkipsLLM ==
    \A c \in Conns :
        SecondOfTwoIdentical(c) =>
            /\ Count(trace[c], "call_llm") = 1
            /\ Count(TurnTrace(c, 1), "call_llm") = 1
            /\ Count(trace[c], "call_emotion") = 2
            /\ pc[c] = "tts_wait" =>
                   sent[c] = EvText(conversations[c][1].assistant_message)

\* the second turn has sent its response_text
C3_Witness ==
    \E c \in Conns :
        /\ SecondOfTwoIdentical(c)
        /\ pc[c] = "send_complete"
        /\ Count(TurnTrace(c, 2), "response_text") = 1

----------------------------------------------------------------------------
(* C4 as claimed: a text_input or transcription frame with empty text      *)
(* gives one error event and no downstream call: no adapter is called, no  *)
(* turn event other than the error is sent, and neither the cache nor the  *)
(* history comes to hold anything for the empty text.                      *)
C4_EmptyTextFailsFast ==
    \A c \in Conns :
        /\ (turnNo[c] > 0 /\ local[c].kind = "str" /\ InTurn(c)
                /\ local[c].text = TextEmpty) =>
              /\ \A i \in 1..Len(TurnTrace(c, turnNo[c])) :
                     TurnTrace(c, turnNo[c])[i].kind = "error"
              /\ pc[c] = "send_error"
        /\ ~Has(cache, HashKey(CacheKey(TextEmpty)))
        /\ c \in DOMAIN conversations =>
              \A i \in 1..Len(conversations[c]) :
                  conversations[c][i].user_message # TextEmpty

\* an empty-text turn ran the whole pipeline: it cached and recorded a reply
\* for the empty text and ended with response_complete
C4_EmptyTextProcessed ==
    \E c \in Conns :
        /\ TurnOver(c) /\ local[c].kind = "str" /\ ~local[c].raised
        /\ sent[c] = EvComplete
        /\ Count(TurnTrace(c, turnNo[c]), "call_llm") = 1
        /\ Has(cache, HashKey(CacheKey(TextEmpty)))
        /\ conversations[c][Len(conversations[c])].user_message = TextEmpty

----------------------------------------------------------------------------
(* C5 as claimed: when speech synthesis raised or gave no audio bytes, the *)
(* turn goes on: lip_sync_data has duration 0 and visemes of 80 ms per     *)
(* unit, audio_data is empty, response_complete follows, no error event.   *)
EightyMsPerUnit(visemes) ==
    \A i \in 1..(Len(visemes) - 1) :
        visemes[i].start = (i - 1) * 80 /\ visemes[i].end = i * 80

C5_SynthesisFailureTolerated ==
    \A c \in Conns :
        (turnNo[c] > 0 /\ local[c].tts_outcome \in {"raise", "empty"}
                /\ ~local[c].raised) =>
            /\ pc[c] = "send_audio" =>
                  /\ sent[c].type = "lip_sync_data"
                  /\ sent[c].duration = 0
                  /\ EightyMsPerUnit(sent[c].visemes)
            /\ pc[c] = "send_complete" => sent[c] = EvAudio(<<>>)
            /\ TurnOver(c) => TurnEvents(c, turnNo[c]) = TurnEventTypes

\* synthesis gave no audio bytes without raising, and the turn's
\* lip_sync_data carries the estimated duration, not 0
C5_EmptyAudioTimed ==
    \E c \in Conns :
        /\ pc[c] = "send_audio" /\ local[c].tts_outcome = "empty"
        /\ sent[c].type = "lip_sync_data"
        /\ sent[c].duration > 0

----------------------------------------------------------------------------
(* C6: the turns of a connection are serialized: every adapter call and    *)
(* every event of a turn comes after the terminal event (response_complete *)
(* or error) of the turn before, so the entries of two turns never         *)
(* interleave, whenever the frames arrive.  Among the adapter calls and    *)
(* events of turns, in the order they happened, the first belongs to turn  *)
(* 1, and each other one either continues the turn of the one before it,   *)
(* which has not ended, or opens the next turn right after the terminal    *)
(* event of that turn.                                                     *)
C6_TurnsSerialized ==
    \A c \in Conns :
        LET tr == SelectSeq(trace[c], LAMBDA e : e.turn > 0)
        IN  /\ tr # <<>> => tr[1].turn = 1
            /\ \A i \in 2..Len(tr) :
                  IF tr[i - 1].kind \in TerminalEvents
                  THEN tr[i].turn = tr[i - 1].turn + 1
                  ELSE tr[i].turn = tr[i - 1].turn

\* a second turn has sent its reply after the first one completed
C6_Witness ==
    \E c \in Conns :
        /\ turnNo[c] = 2
        /\ Count(TurnTrace(c, 2), "response_text") = 1
        /\ Count(TurnTrace(c, 1), "response_complete") = 1

----------------------------------------------------------------------------
(* C7: whatever get, set, invalidate and clear operations were applied to  *)
(* a ResponseCache with max_size >= 1, it holds at most max_size entries,  *)
(* also after a set on a full cache and after a set that overwrites a key  *)
(* already present.                                                        *)
C7_SizeBounded == max_size >= 1 => StatsEntries(cache) <= max_size

\* the last operation was a set, on a full cache, of a key already present
C7_Witness ==
    /\ ops # <<>>
    /\ LastOp.op = "set" /\ LastOp.full /\ LastOp.stored # None
    /\ StatsEntries(cache) = max_size

----------------------------------------------------------------------------
(* C8: set(k, v) directly followed, before the TTL has elapsed, by get(k)  *)
(* returns v, also when the set had to evict: the eviction of a set never  *)
(* removes the entry that set inserts.                                     *)
SetThenGet ==
    /\ Len(ops) = 2
    /\ ops[1].op = "set" /\ ops[2].op = "get"
    /\ ops[1].key = ops[2].key
    /\ ops[2].at - ops[1].at < ttl_seconds

C8_SetThenGet == SetThenGet => ops[2].ret = ops[1].value

\* the set found the cache full, so it evicted before it inserted
C8_Witness == SetThenGet /\ ops[1].full /\ ops[2].ret = ops[1].value

----------------------------------------------------------------------------
(* C9: get(k) returns a stored value only while now - insertedAt < ttl;    *)
(* when the TTL has elapsed since the entry's last set, get(k) returns     *)
(* absent, removes the entry, and the entry count reported afterwards is   *)
(* one less.                                                               *)
C9_TtlVisibility ==
    (ops # <<>> /\ LastOp.op = "get") =>
        /\ LastOp.ret # None =>
              /\ LastOp.stored # None
              /\ LastOp.age < ttl_seconds
              /\ LastOp.ret = LastOp.stored
        /\ (LastOp.stored # None /\ LastOp.age >= ttl_seconds) =>
              /\ LastOp.ret = None
              /\ ~Has(cache, HashKey(LastOp.key))
              /\ StatsEntries(cache) = LastOp.entries - 1

\* a get found its entry expired
C9_Witness ==
    /\ ops # <<>>
    /\ LastOp.op = "get" /\ LastOp.stored # None /\ LastOp.age >= ttl_seconds
    /\ LastOp.ret = None

----------------------------------------------------------------------------
(* C10: after any sequence of add_turn calls, the history holds at most    *)
(* max_history turns, and they are the most recent min(n, max_history) of  *)
(* the n turns added, in the order they were added.                        *)
C10_HistoryBounded ==
    LET h == conversations[ConvId]
        n == Len(added)
        k == Min(n, max_history)
    IN  /\ Len(h) <= max_history
        /\ h = SubSeq(added, n - k + 1, n)

\* more turns were added than the history keeps
C10_Witness ==
    /\ Len(added) > max_history
    /\ Len(conversations[ConvId]) = max_history

----------------------------------------------------------------------------
(* C11 as claimed: a turn appends to the connection's history only if the  *)
(* language model was called and returned in that turn, and a turn         *)
(* answered from the cache leaves the history alone: the history holds as  *)
(* many turns as the language model returned replies on the connection.    *)
C11_HistoryOnlyAfterLLM ==
    \A c \in DOMAIN conversations :
        Len(conversations[c]) = Count(trace[c], "return_llm")

\* a turn answered from the cache has added itself to the history
C11_CacheHitRecorded ==
    \E c \in DOMAIN conversations :
        /\ turnNo[c] = 2 /\ local[c].hit /\ pc[c] = "send_text"
        /\ Count(trace[c], "return_llm") = 1
        /\ Len(conversations[c]) = 2
        /\ conversations[c][2].assistant_message = local[c].cached_response.text

----------------------------------------------------------------------------
(* C12 as claimed: a connection's ConversationState is destroyed when the  *)
(* connection is unregistered: the connection ids that have one are all    *)
(* registered connections.                                                 *)
C12_ConversationsOfRegistered == DOMAIN conversations \subseteq connections

\* the connection is closed and unregistered, its history is still held
C12_HistoryOutlivesConnection ==
    \E c \in DOMAIN conversations :
        /\ pc[c] = "closed" /\ c \notin connections
        /\ Len(conversations[c]) > 0

----------------------------------------------------------------------------
(* C13: in every turn that reaches the cache lookup, hit or miss, the      *)
(* emotion classifier is called exactly once, on the raw text, and         *)
(* emotion_detected is sent before the language model is called and before *)
(* response_text; the emotion sent is the classifier's result of this      *)
(* turn, and what the cache returned holds a text only.                    *)
C13_EmotionAlwaysFresh ==
    \A c \in Conns :
        (turnNo[c] > 0 /\ local[c].kind = "str") =>
            LET tr == TurnTrace(c, turnNo[c])
            IN  /\ Count(tr, "call_emotion") = 1
                /\ tr[1].kind = "call_emotion"
                /\ \A i \in 1..Len(tr) :
                      tr[i].kind \in {"call_llm", "response_text"} =>
                          \E j \in 1..(i - 1) : tr[j].kind = "emotion_detected"
                /\ InTurn(c) =>
                      /\ local[c].classified = local[c].text
                      /\ local[c].cached_response # None =>
                             DOMAIN local[c].cached_response = {"text"}
                /\ (pc[c] \in {"llm_wait", "send_text"} /\ ~local[c].raised) =>
                      sent[c] = EvEmotion(local[c].emotion_data)

\* a turn answered from the cache, whose raw text is not its cache key, has
\* sent an emotion other than the one of the turn that stored the reply
C13_Witness ==
    \E c \in Conns :
        /\ turnNo[c] = 2 /\ local[c].hit /\ pc[c] = "send_text"
        /\ local[c].text # local[c].cache_key
        /\ sent[c].type = "emotion_detected"
        /\ sent[c].emotion # conversations[c][1].user_emotion

----------------------------------------------------------------------------
(* C14 as claimed: every result of process_text_query has the fields       *)
(* response, emotion and cached, cached being true exactly when the        *)
(* language model was not called for the request, and has audio and        *)
(* audio_format exactly when include_audio is true.                        *)
ResultFields == {"response", "emotion", "cached"}
AudioFields  == {"audio", "audio_format"}

C14_ResultShape ==
    (http.pc = "done" /\ http.status = 200) =>
        /\ ResultFields \subseteq DOMAIN http.result
        /\ http.result.cached <=> "llm" \notin http.calls
        /\ IF http.include_audio
           THEN AudioFields \subseteq DOMAIN http.result
           ELSE AudioFields \cap DOMAIN http.result = {}

(* C14 amended: that holds of every result of a call in which no step      *)
(* raises; when a step raises (the text is no string) the result has the   *)
(* fields response and error only, whatever include_audio is.              *)
C14_ResultShapeUnlessRaised ==
    (http.pc = "done" /\ http.status = 200) =>
        IF http.kind = "str"
        THEN /\ DOMAIN http.result =
                    ResultFields \cup (IF http.include_audio THEN AudioFields ELSE {})
             /\ http.result.response = http.response_text
             /\ http.result.emotion = http.emotion_data.emotion
             /\ http.result.cached <=> "llm" \notin http.calls
             /\ http.result.cached <=> http.stored_at = -1
        ELSE /\ DOMAIN http.result = {"response", "error"}
             /\ "llm" \notin http.calls

\* a request with include_audio was answered from the cache
C14_Witness ==
    /\ http.pc = "done" /\ http.status = 200 /\ http.kind = "str"
    /\ http.include_audio /\ http.result.cached
    /\ http.result.audio # <<>>

----------------------------------------------------------------------------
(* C15: the HTTP chat interface answers a request whose text is absent or  *)
(* empty, and no other, with a client error (status 400), calling no       *)
(* adapter and leaving the cache as it was; and no step of any HTTP        *)
(* request, rejected or not, changes a conversation history.               *)
C15_HttpRejectsEmpty ==
    /\ [][http' # http =>
            /\ conversations' = conversations
            /\ http'.status = 400 =>
                  /\ cache' = cache /\ hits' = hits /\ misses' = misses
                  /\ http'.calls = {} /\ http'.pc = "done"]_vars
    /\ [](http.pc = "done" =>
            (http.status = 400 <=>
                (http.kind = "absent" \/ (http.kind = "str" /\ http.text = TextEmpty))))

\* a request was rejected while the cache held a reply and the connection
\* had a history
C15_Witness ==
    /\ http.pc = "done" /\ http.status = 400
    /\ cache # <<>>
    /\ \E c \in DOMAIN conversations : Len(conversations[c]) > 0

----------------------------------------------------------------------------
(* C16: the cache has no connection affinity.  When a turn on connection b *)
(* looks up a query and the cache holds, within its TTL, the reply that a  *)
(* turn of another connection or an HTTP request stored for a query equal  *)
(* to it after trimming and lowercasing, the lookup returns that reply;    *)
(* and a turn whose lookup returned a reply calls no language model and    *)
(* sends that reply as its response_text.                                  *)
Normalized(text) == Strip(Lower(text))

\* entry e is what a turn of a connection other than b, or an HTTP request,
\* stored for a query that normalizes to k
StoredByAnother(b, k, e) ==
    \/ \E a \in DOMAIN conversations \ {b} :
          \E i \in 1..Len(conversations[a]) :
              /\ Normalized(conversations[a][i].user_message) = k
              /\ e.value = [text |-> conversations[a][i].assistant_message]
              /\ e.timestamp = conversations[a][i].timestamp
    \/ /\ http.stored_at >= 0
       /\ Normalized(http.text) = k
       /\ e.value = [text |-> http.response_text]
       /\ e.timestamp = http.stored_at

C16_NoConnectionAffinity ==
    /\ [][\A b \in Conns :
            (pc[b] = "loop" /\ pc'[b] = "send_emotion") =>
                LET k  == Normalized(local'[b].text)
                    hk == HashKey(k)
                IN  (/\ Has(cache, hk)
                     /\ StoredByAnother(b, k, EntryOf(cache, hk))
                     /\ now - EntryOf(cache, hk).timestamp < ttl_seconds)
                        => local'[b].cached_response = EntryOf(cache, hk).value]_vars
    /\ [](\A b \in Conns :
            (InTurn(b) /\ local[b].kind = "str" /\ local[b].cached_response # None) =>
                /\ Count(TurnTrace(b, turnNo[b]), "call_llm") = 0
                /\ pc[b] = "tts_wait" => sent[b] = EvText(local[b].cached_response.text))

\* a connection that never called the language model has sent, as its
\* response_text, the reply stored by a turn of the other connection, whose
\* query was typed differently
C16_Witness ==
    \E b \in Conns : \E a \in DOMAIN conversations \ {b} :
        /\ pc[b] = "tts_wait" /\ local[b].hit
        /\ Count(trace[b], "call_llm") = 0
        /\ Count(trace[a], "return_llm") = 1
        /\ conversations[a][1].user_message # local[b].text
        /\ sent[b] = EvText(conversations[a][1].assistant_message)

----------------------------------------------------------------------------
(* C17: when the language model adapter errs (no credentials, a status     *)
(* other than 200, an exception or a timeout), the turn does not fail: the *)
(* reply is the canned fallback text for the user's message, it is what    *)
(* response_text carries, and the turn, if no other step raises, sends the *)
(* full sequence through response_complete and no error event.            *)
C17_FallbackReply ==
    \A c \in Conns :
        (turnNo[c] > 0 /\ local[c].llm = "fallback" /\ ~local[c].raised) =>
            /\ IsPrefix(TurnEvents(c, turnNo[c]), TurnEventTypes)
            /\ TurnOver(c) => TurnEvents(c, turnNo[c]) = TurnEventTypes
            /\ InTurn(c) => local[c].response_text = MockResponse(local[c].text)
            /\ pc[c] = "tts_wait" => sent[c] = EvText(MockResponse(local[c].text))

\* a turn whose language model call failed has completed, and the history
\* holds the fallback reply
C17_Witness ==
    \E c \in Conns :
        /\ TurnOver(c) /\ local[c].llm = "fallback" /\ ~local[c].raised
        /\ sent[c] = EvComplete
        /\ LET h == conversations[c][Len(conversations[c])]
           IN  h.assistant_message = MockResponse(h.user_message)

----------------------------------------------------------------------------
(* C18 as claimed: no failure while handling an inbound message ends the   *)
(* connection; only a transport disconnect ends the message loop: a        *)
(* connection whose loop has ended is one whose client closed it.          *)
C18_OnlyDisconnectEndsLoop ==
    \A c \in Conns : pc[c] = "closed" => ~clientOpen[c]

\* the loop ended on a frame it could not handle: the connection-level
\* error was sent, the client is still there, and a frame it sent since is
\* never received
C18_LoopEndedByBadFrame ==
    \E c \in Conns :
        /\ pc[c] = "closed" /\ c \notin connections
        /\ clientOpen[c]
        /\ sent[c] = EvConnError
        /\ pending[c] > 0

----------------------------------------------------------------------------
(* C19: on every connection the greeting, carrying the connection id, is   *)
(* the first event sent, is sent once, and precedes every turn event and   *)
(* control reply: a connection that got past its greeting has sent exactly *)
(* one, as its first event.  (A client that closed the connection before   *)
(* the greeting could be sent gets no event at all.)                       *)
C19_GreetingFirst ==
    \A c \in Conns :
        /\ Count(trace[c], "greeting") <= 1
        /\ trace[c] # <<>> => trace[c][1] = Tr("greeting", 0)
        /\ Len(trace[c]) = 1 => sent[c] = [type |-> "greeting", connection_id |-> c]
        /\ pc[c] \notin {"new", "greet"} =>
              \/ Count(trace[c], "greeting") = 1
              \/ trace[c] = <<>> /\ pc[c] = "closed" /\ ~clientOpen[c]

\* after its greeting a connection has sent a control reply and the events
\* of a turn
C19_Witness ==
    \E c \in Conns :
        /\ trace[c] # <<>> /\ trace[c][1].kind = "greeting"
        /\ Count(trace[c], "control_response") = 1
        /\ Count(trace[c], "response_complete") = 1

----------------------------------------------------------------------------
(* C20: a control message ping, stop_speaking or get_status is answered    *)
(* with exactly one event: pong, status stopped, or the status object of   *)
(* the connection.  Handling it sends no turn event, calls no adapter, and *)
(* leaves the cache and the conversation histories as they were.  (When    *)
(* the client has closed the connection the send raises: nothing is sent   *)
(* and the loop ends.)                                                     *)
ExpectedReply(c, cmd) ==
    IF cmd = "ping"
    THEN [type |-> "control_response", command |-> "pong", status |-> "ok"]
    ELSE IF cmd = "stop_speaking"
    THEN [type |-> "control_response", command |-> "stop_speaking", status |-> "stopped"]
    ELSE [type |-> "status", connection_id |-> c]

C20_ControlReplies ==
    [][\A c \in Conns :
          /\ (pc[c] = "loop" /\ pc'[c] = "send_control") =>
                /\ local'[c].command \in {"ping", "stop_speaking", "get_status"}
                /\ UNCHANGED <<cache, hits, misses, conversations, trace, sent, turnNo>>
          /\ (pc[c] = "send_control" /\ pc'[c] # "send_control") =>
                /\ UNCHANGED <<cache, hits, misses, conversations, turnNo>>
                /\ IF clientOpen[c]
                   THEN /\ pc'[c] = "loop"
                        /\ sent'[c] = ExpectedReply(c, local[c].command)
                        /\ trace'[c] = Append(trace[c], Tr(sent'[c].type, 0))
                        /\ sent'[c].type \notin
                               {TurnEventTypes[i] : i \in 1..Len(TurnEventTypes)}
                                   \cup AdapterCalls \cup {"error"}
                   ELSE pc'[c] = "closed" /\ trace'[c] = trace[c]]_vars

\* a get_status was answered on a connection that has a history, while the
\* cache held a reply
C20_Witness ==
    \E c \in DOMAIN conversations :
        /\ pc[c] = "loop" /\ sent[c] = [type |-> "status", connection_id |-> c]
        /\ Len(conversations[c]) = 1
        /\ cache # <<>>

----------------------------------------------------------------------------
----------------------------------------------------------------------------
(* C22: every non-empty sequence generate_visemes returns starts at 0, is  *)
(* contiguous (each interval ends where the next one starts, the trailing  *)
(* silence included), and no interval ends before it starts.               *)
C22_Contiguous ==
    \A k \in 1..Len(lip.calls) :
        LET v == lip.calls[k].visemes
        IN  v # <<>> =>
              /\ v[1].start = 0
              /\ \A i \in 1..(Len(v) - 1) : v[i].end = v[i + 1].start
              /\ \A i \in 1..Len(v) : v[i].start <= v[i].end

\* a text of six units was spread over 100 ms, so that the slices are not
\* whole milliseconds and the rounded intervals differ in length
C22_Witness ==
    \E k \in 1..Len(lip.calls) :
        LET v == lip.calls[k].visemes
        IN  /\ Len(v) = 7
            /\ lip.calls[k].audio_duration = 100
            /\ \E i, j \in 1..6 : v[i].end - v[i].start # v[j].end - v[j].start

----------------------------------------------------------------------------
(* C23: for a text with at least one unit, the intervals of the units (the *)
(* trailing silence left out) add up to the duration given, or to 80 ms a  *)
(* unit when the duration given is 0, to the millisecond; and every unit   *)
(* gets the same slice, to the millisecond.                                *)
RECURSIVE SumOfIntervals(_, _)
SumOfIntervals(v, n) ==
    IF n = 0 THEN 0 ELSE (v[n].end - v[n].start) + SumOfIntervals(v, n - 1)

Abs(x) == IF x < 0 THEN -x ELSE x

C23_Coverage ==
    \A k \in 1..Len(lip.calls) :
        LET v == lip.calls[k].visemes
            d == lip.calls[k].audio_duration
            unitCount == Len(v) - 1
            target == IF d > 0 THEN d ELSE FallbackPerPhonemeMs * unitCount
        IN  v # <<>> =>
              /\ Abs(SumOfIntervals(v, unitCount) - target) <= 1
              /\ \A i \in 1..unitCount :
                    Abs((v[i].end - v[i].start) * unitCount - target) <= unitCount

\* both cases happened: a text of three units with a duration that three
\* does not divide, and a text of six units with no duration
C23_Witness ==
    /\ \E k \in 1..Len(lip.calls) :
          /\ Len(lip.calls[k].visemes) = 4
          /\ lip.calls[k].audio_duration = 100
    /\ \E k \in 1..Len(lip.calls) :
          /\ Len(lip.calls[k].visemes) = 7
          /\ lip.calls[k].audio_duration = 0

----------------------------------------------------------------------------
(* C24: for a text with no ASCII letter (the empty string, whitespace      *)
(* only, digits and punctuation only) generate_visemes returns the empty   *)
(* sequence, with no trailing silence, whatever the duration.              *)
HasLetter(text) == \E i \in 1..Len(text) : IsAlpha(text[i])

C24_EmptyInput ==
    \A k \in 1..Len(lip.calls) :
        ~HasLetter(lip.calls[k].text) => lip.calls[k].visemes = <<>>

\* the empty string, a blank text and a text of digits were each given, one
\* of them with a duration
C24_Witness ==
    /\ Len(lip.calls) = 3
    /\ lip.calls[1].text = <<>>
    /\ lip.calls[2].text = TextBlank /\ lip.calls[2].audio_duration > 0
    /\ lip.calls[3].text = TextDigits
    /\ \A k \in 1..3 : lip.calls[k].visemes = <<>>

----------------------------------------------------------------------------
(* C25: for a text with at least one unit generate_visemes returns one     *)
(* viseme per unit, in text order, and then one trailing silence of 200    *)
(* ms: "th" gives TH and the silence; "cat" gives the default vowel, the   *)
(* vowel of a, the alveolar of t, and the silence; "The cat!" gives six    *)
(* units (the digraph, e, the space, and the three of "cat") and the       *)
(* silence.                                                                *)
ExpectedUnits(text) ==
    IF text = KeyTh THEN <<"TH">>
    ELSE IF text = TextCat THEN <<"AA", "AA", "DD">>
    ELSE <<"TH", "E", "sil", "AA", "AA", "DD">>

C25_UnitsThenSilence ==
    \A k \in 1..Len(lip.calls) :
        LET v == lip.calls[k].visemes
            n == Len(v)
        IN  HasLetter(lip.calls[k].text) =>
              /\ n = Len(ExpectedUnits(lip.calls[k].text)) + 1
              /\ [i \in 1..(n - 1) |-> v[i].value] = ExpectedUnits(lip.calls[k].text)
              /\ v[n].value = "sil" /\ v[n].blendShape = "viseme_sil"
              /\ v[n].end - v[n].start = FinalSilenceMs

\* "th", "cat" and "The cat!" were each given
C25_Witness ==
    /\ Len(lip.calls) = 3
    /\ lip.calls[1].text = KeyTh /\ Len(lip.calls[1].visemes) = 2
    /\ lip.calls[2].text = TextCat /\ Len(lip.calls[2].visemes) = 4
    /\ lip.calls[3].text = ReplyOk /\ Len(lip.calls[3].visemes) = 7

----------------------------------------------------------------------------
(* C26: the language model is never called for a query whose key has an    *)
(* unexpired cache entry at the moment of the call, and two connections    *)
(* never have a call under way for the same key.  The cache is read at     *)
(* line 119 and the model is called at line 137, after the send of         *)
(* emotion_detected: the turns of other connections run in between.        *)
C26_OneCallPerQuery ==
    /\ [][\A c \in Conns :
            (pc[c] = "send_emotion" /\ pc'[c] = "llm_wait") =>
                GetValue(cache, local[c].cache_key, now, ttl_seconds) = None]_vars
    /\ [](\A c1, c2 \in Conns :
            (c1 # c2 /\ pc[c1] = "llm_wait" /\ pc[c2] = "llm_wait") =>
                local[c1].cache_key # local[c2].cache_key)

\* two connections wait for the language model on the same key, each having
\* sent the query in its own spelling
C26_DuplicateCalls ==
    \E c1, c2 \in Conns :
        /\ c1 # c2
        /\ pc[c1] = "llm_wait" /\ pc[c2] = "llm_wait"
        /\ local[c1].cache_key = local[c2].cache_key
        /\ local[c1].text # local[c2].text

----------------------------------------------------------------------------
(* C27: with the turns of two connections and the HTTP requests            *)
(* interleaved, every get and every set of the cache is one step: the size *)
(* bound holds and no key is stored twice in every state, every get is     *)
(* counted once as a hit or a miss, a get returns the value the cache held *)
(* and removes at most the expired entry of its key, and after a set the   *)
(* cache holds the value just written under its key, at the time of the    *)
(* write, next to entries it already held.                                 *)
RECURSIVE TurnsUpTo(_)
TurnsUpTo(i) == IF i = 0 THEN 0 ELSE turnNo[ConnOrder[i]] + TurnsUpTo(i - 1)

EntriesOf(c) == {c[i] : i \in 1..Len(c)}

WholeGet(key, got) ==
    /\ got = GetValue(cache, key, now, ttl_seconds)
    /\ EntriesOf(cache') \subseteq EntriesOf(cache)
    /\ \A e \in EntriesOf(cache) \ EntriesOf(cache') :
          e.key = HashKey(key) /\ got = None
    /\ hits' + misses' = hits + misses + 1

WholeSet(key, text) ==
    /\ [key |-> HashKey(key), value |-> [text |-> text], timestamp |-> now]
           \in EntriesOf(cache')
    /\ \A e \in EntriesOf(cache') : e.key = HashKey(key) \/ e \in EntriesOf(cache)

C27_CacheStepsWhole ==
    /\ [](/\ Len(cache) <= max_size
          /\ \A i, j \in 1..Len(cache) : cache[i].key = cache[j].key => i = j
          /\ hits + misses = TurnsUpTo(Cardinality(Conns)) + http.n)
    /\ [][/\ \A c \in Conns :
               /\ turnNo'[c] # turnNo[c] =>
                     WholeGet(local'[c].cache_key, local'[c].cached_response)
               /\ (pc[c] = "llm_wait" /\ pc'[c] # "llm_wait") =>
                     WholeSet(local[c].cache_key, local'[c].response_text)
          /\ http'.n # http.n => WholeGet(http'.cache_key, http'.cached)
          /\ (http.pc = "llm_wait" /\ http'.pc # "llm_wait") =>
                WholeSet(http.cache_key, http'.response_text)]_vars

\* two connections missed on two keys and each wrote the cache when its
\* language model call returned: the cache is full and holds the entry of
\* the later write, the entry of the earlier one having been evicted for it
C27_Witness ==
    \E c1, c2 \in Conns :
        /\ c1 # c2
        /\ local[c1].llm = "reply" /\ local[c2].llm = "reply"
        /\ local[c1].cache_key # local[c2].cache_key
        /\ Len(cache) = max_size
        /\ cache[1].key = HashKey(local[c2].cache_key)
        /\ misses = 2

----------------------------------------------------------------------------
(* C28: every adapter call is issued with a scheduling point: the step     *)
(* that makes the call ends with the turn suspended on it, so that other   *)
(* connections can take steps until it returns.  detect_from_text has no   *)
(* await in its body: the classifier runs inside the step that received    *)
(* the frame, and its result is there when that step ends.                 *)
WaitingOn(call) ==
    IF call = "call_llm" THEN "llm_wait"
    ELSE IF call = "call_tts" THEN "tts_wait"
    ELSE "emotion_wait"

C28_AdapterCallsSuspend ==
    [][\A c \in Conns : \A call \in AdapterCalls :
          Count(trace'[c], call) > Count(trace[c], call) =>
              pc'[c] = WaitingOn(call)]_vars

\* a connection holds the classifier's result for its turn, not having been
\* suspended since it received the frame, while a frame of the other
\* connection is waiting to be received
C28_ClassifierBlocks ==
    \E c1, c2 \in Conns :
        /\ c1 # c2
        /\ pc[c1] = "send_emotion"
        /\ local[c1].emotion_data # None
        /\ trace[c1][Len(trace[c1])].kind = "call_emotion"
        /\ pc[c2] = "loop" /\ pending[c2] > 0

----------------------------------------------------------------------------
(* C29: under fair scheduling a turn all of whose adapter calls return     *)
(* ends with response_complete or error, whatever happens to the adapter   *)
(* calls of the other connection, which may never return: every turn of    *)
(* the second connection, whose adapters always answer, comes to its       *)
(* terminal event.                                                         *)
C29_TurnsEnd ==
    InTurn(ConnOrder[2]) ~>
        (TurnOver(ConnOrder[2]) /\ sent[ConnOrder[2]].type \in TerminalEvents)

\* the second connection is in a turn, its synthesis call answered, while
\* the classifier call of the first connection's turn has not returned and
\* keeps the event loop
C29_LoopHeld ==
    /\ pc[ConnOrder[1]] = "classify"
    /\ pc[ConnOrder[2]] = "send_lipsync"

----------------------------------------------------------------------------
(* C30: get normalizes its key: set(k, v) directly followed, before the    *)
(* TTL has elapsed, by get(k') returns v for every k' that equals k after  *)
(* trimming and lowercasing.  _hash_key digests the key as it is given:    *)
(* the trimming and lowercasing are done by the callers in the             *)
(* orchestrator, not by the cache.                                         *)
SetThenGetAlike ==
    /\ Len(ops) = 2
    /\ ops[1].op = "set" /\ ops[2].op = "get"
    /\ Normalized(ops[1].key) = Normalized(ops[2].key)
    /\ ops[2].at - ops[1].at < ttl_seconds

C30_GetNormalizes == SetThenGetAlike => ops[2].ret = ops[1].value

\* a reply was stored under " Hi" and get("hi") at once after it missed
C30_GetAsGiven ==
    /\ SetThenGetAlike
    /\ ops[1].key = KeyHiRaw /\ ops[2].key = KeyHi
    /\ ops[2].at = ops[1].at
    /\ ops[2].ret = None
    /\ misses > 0

----------------------------------------------------------------------------
(* C31: every get increments exactly one counter, hits when it returns a   *)
(* value and misses when the key is absent or its entry has expired; set   *)
(* and invalidate change neither counter; clear leaves no entry and both   *)
(* counters at 0.  So hits + misses is the number of get calls since       *)
(* construction or the last clear.                                         *)
C31_Counters ==
    /\ [](hits + misses = nGets)
    /\ [][nOps' = nOps + 1 =>
            LET r == ops'[Len(ops')]
            IN  /\ r.op = "get" =>
                     IF r.stored # None /\ r.age < ttl_seconds
                     THEN r.ret # None /\ hits' = hits + 1 /\ misses' = misses
                     ELSE r.ret = None /\ hits' = hits /\ misses' = misses + 1
                /\ r.op \in {"set", "invalidate"} => UNCHANGED <<hits, misses>>
                /\ r.op = "clear" =>
                     StatsEntries(cache') = 0 /\ hits' = 0 /\ misses' = 0]_vars

\* a get missed on an entry that had expired, then the cache was cleared
C31_Witness ==
    /\ Len(ops) = 2 /\ nOps = 3
    /\ ops[1].op = "get" /\ ops[1].stored # None /\ ops[1].ret = None
    /\ ops[2].op = "clear" /\ ops[2].entries = 0
    /\ hits = 0 /\ misses = 0 /\ nGets = 0

----------------------------------------------------------------------------
(* C32: a set on a cache of n >= max_size entries evicts exactly           *)
(* max(1, n \div 10) of them before it inserts, and evicts the oldest: no  *)
(* entry that survives was set before an entry that was evicted.  A set on *)
(* a cache of fewer than max_size entries evicts nothing.  (The entry of   *)
(* the key being set may itself be among the evicted; it is then inserted  *)
(* anew.)                                                                  *)
EvictsOldest(hk, value) ==
    LET n      == Len(cache)
        k      == IF n >= max_size THEN Max(1, n \div 10) ELSE 0
        others == {i \in 1..n : cache[i].key # hk}
        gone   == {i \in others : cache[i] \notin EntriesOf(cache')}
        kept   == others \ gone
        old    == {i \in 1..n : cache[i].key = hk}
    IN  /\ \A i \in gone, j \in kept : cache[i].timestamp <= cache[j].timestamp
        /\ \/ /\ Cardinality(gone) = k
              /\ \A i \in gone, j \in old : cache[i].timestamp <= cache[j].timestamp
           \/ /\ Cardinality(gone) = k - 1
              /\ old # {}
              /\ \A i \in old, j \in kept : cache[i].timestamp <= cache[j].timestamp
        /\ Len(cache') = Cardinality(kept) + 1
        /\ [key |-> hk, value |-> value, timestamp |-> now] \in EntriesOf(cache')

C32_EvictsOldestTenth ==
    [][(nOps' = nOps + 1 /\ ops'[Len(ops')].op = "set") =>
          EvictsOldest(HashKey(ops'[Len(ops')].key), ops'[Len(ops')].value)]_vars

\* a set of a new key found 20 entries in a full cache and left 19: two were
\* evicted, and an older entry than the newest of them does not remain
C32_Witness ==
    /\ ops # <<>>
    /\ LastOp.op = "set" /\ LastOp.full /\ LastOp.entries = 20
    /\ LastOp.stored = None
    /\ StatsEntries(cache) = 19
    /\ \E i \in 1..18 : cache[i].timestamp > 0

----------------------------------------------------------------------------
(* C33: a get that returns a value leaves the dict as it was, the          *)
(* timestamp of the entry read included, so that the entry expires and is  *)
(* ranked for eviction as if it had not been read; the timestamp of an     *)
(* entry changes only in a set of its key.                                 *)
C33_HitLeavesCache ==
    [][/\ (nOps' = nOps + 1 /\ ops'[Len(ops')].op = "get"
              /\ ops'[Len(ops')].ret # None) => cache' = cache
       /\ \A i \in 1..Len(cache), j \in 1..Len(cache') :
             (cache[i].key = cache'[j].key
                 /\ cache[i].timestamp # cache'[j].timestamp)
             => /\ nOps' = nOps + 1
                /\ ops'[Len(ops')].op = "set"
                /\ HashKey(ops'[Len(ops')].key) = cache[i].key]_vars

\* an entry was read one second after it was set, and still carries the
\* time of the set
C33_Witness ==
    /\ ops # <<>>
    /\ LastOp.op = "get" /\ LastOp.ret # None /\ LastOp.age > 0
    /\ \E i \in 1..Len(cache) :
          cache[i].key = HashKey(LastOp.key) /\ cache[i].timestamp = now - LastOp.age

----------------------------------------------------------------------------
(* C36: when a set evicts, it evicts no unexpired entry while an expired   *)
(* one stays in the dict: the entries share one ttl and the oldest         *)
(* timestamps go first.                                                    *)
Expired(e) == ~Fresh(e.timestamp, now, ttl_seconds)

EvictedBySet == {e \in EntriesOf(cache) :
                    /\ e.key # HashKey(ops'[Len(ops')].key)
                    /\ e \notin EntriesOf(cache')}

C36_ExpiredGoFirst ==
    [][(nOps' = nOps + 1 /\ ops'[Len(ops')].op = "set") =>
          \A e \in EvictedBySet :
              ~Expired(e) => \A r \in EntriesOf(cache') : ~Expired(r)]_vars

\* a set on a full cache of expired and unexpired entries evicted one and
\* left an expired entry behind: the one evicted was expired too
C36_Witness ==
    /\ ops # <<>>
    /\ LastOp.op = "set" /\ LastOp.full /\ LastOp.stored = None
    /\ LastOp.entries = StatsEntries(cache) /\ LastOp.at = now
    /\ \E e \in EntriesOf(cache) : Expired(e)
    /\ \E e \in EntriesOf(cache) : ~Expired(e) /\ e.key # HashKey(LastOp.key)

----------------------------------------------------------------------------
(* C34: the segmentation reads the normalized text once from left to       *)
(* right: th, sh and ch are one unit each wherever they occur, every other *)
(* character is one unit, none is dropped, and the number of units is the  *)
(* length of the normalized text less the number of digraphs.              *)

\* where a unit begins: everywhere but at the h of a digraph (a digraph
\* ends in h and none begins with it, so two never overlap)
UnitStarts(n) ==
    LET idx == [i \in 1..Len(n) |-> i]
    IN  Pick(idx, {i \in 1..Len(n) :
                     ~(i > 1 /\ SubSeq(n, i - 1, i) \in Digraphs)}, 1)

DigraphsIn(n) ==
    Cardinality({i \in 1..(Len(n) - 1) : SubSeq(n, i, i + 1) \in Digraphs})

\* the unit read at cursor i: the digraph, the character, or a for a letter
\* outside the table
UnitAt(n, i) ==
    IF i < Len(n) /\ SubSeq(n, i, i + 1) \in Digraphs THEN SubSeq(n, i, i + 1)
    ELSE IF n[i] \in {"c", "q", "x"} THEN <<"a">>
    ELSE <<n[i]>>

C34_EveryCharacterOnce ==
    \A k \in 1..Len(lip.calls) :
        LET n == CleanText(lip.calls[k].text)
            v == lip.calls[k].visemes
            u == UnitStarts(n)
        IN  n # <<>> =>
              /\ Len(v) - 1 = Len(n) - DigraphsIn(n)
              /\ Len(u) = Len(v) - 1
              /\ \A j \in 1..Len(u) : v[j].value = VisemeCode(UnitAt(n, u[j]))

\* "The cat!" gave six units for the seven characters of "the cat": the
\* digraph, e, the space, the vowel for c, a, t
C34_Witness ==
    /\ Len(lip.calls) = 1
    /\ lip.calls[1].text = ReplyOk
    /\ Len(CleanText(lip.calls[1].text)) = 7
    /\ Len(lip.calls[1].visemes) = 7
    /\ lip.calls[1].visemes[1].value = "TH"
    /\ lip.calls[1].visemes[4].value = "AA"

----------------------------------------------------------------------------
(* C35: the viseme code of a unit is fixed by the table: five distinct     *)
(* codes for a, e, i, o, u; one for b, p, m; one for f, v; one for th;     *)
(* one for d, t, n, l; one for k, g; one for s, z; one for sh, ch, j; one  *)
(* for r; the code of o for w; the code of i for y; silence for the space  *)
(* and h; the code of a for any other letter (c, q, x).                    *)
TableCode(unit) ==
    CASE unit \in {<<"a">>, <<"c">>, <<"q">>, <<"x">>} -> "AA"
      [] unit = <<"e">> -> "E"
      [] unit \in {<<"i">>, <<"y">>} -> "I"
      [] unit \in {<<"o">>, <<"w">>} -> "O"
      [] unit = <<"u">> -> "U"
      [] unit \in {<<"b">>, <<"p">>, <<"m">>} -> "PP"
      [] unit \in {<<"f">>, <<"v">>} -> "FF"
      [] unit = <<"t", "h">> -> "TH"
      [] unit \in {<<"d">>, <<"t">>, <<"n">>, <<"l">>} -> "DD"
      [] unit \in {<<"k">>, <<"g">>} -> "kk"
      [] unit \in {<<"s">>, <<"z">>} -> "SS"
      [] unit \in {<<"s", "h">>, <<"c", "h">>, <<"j">>} -> "CH"
      [] unit = <<"r">> -> "RR"
      [] unit \in {<<" ">>, <<"h">>} -> "sil"

C35_TableOfCodes ==
    \A k \in 1..Len(lip.calls) :
        LET n == CleanText(lip.calls[k].text)
            v == lip.calls[k].visemes
            u == UnitStarts(n)
        IN  \A j \in 1..Len(u) :
              /\ j <= Len(v)
              /\ v[j].value =
                   TableCode(IF u[j] < Len(n) /\ SubSeq(n, u[j], u[j] + 1) \in Digraphs
                             THEN SubSeq(n, u[j], u[j] + 1) ELSE <<n[u[j]]>>)

\* "xw" gave the vowel of a and the vowel of o
C35_Witness ==
    /\ Len(lip.calls) = 1
    /\ lip.calls[1].text = <<"x", "w">>
    /\ lip.calls[1].visemes[1].value = "AA"
    /\ lip.calls[1].visemes[2].value = "O"

----------------------------------------------------------------------------
(* C37: when the language model adapter fails on a cache miss, the canned  *)
(* reply is stored under the key of the query as a reply of the model      *)
(* would be; a later turn of any connection that finds the entry unexpired *)
(* is answered with the canned reply and does not call the adapter,        *)
(* whether or not the adapter answers again by then.                       *)

\* entry e was stored by a turn whose language model call failed
StoredFallback(k, e) ==
    \E a \in DOMAIN conversations :
        \E i \in 1..Len(conversations[a]) :
            /\ Normalized(conversations[a][i].user_message) = k
            /\ conversations[a][i].assistant_message
                  = MockResponse(conversations[a][i].user_message)
            /\ e.value = [text |-> conversations[a][i].assistant_message]
            /\ e.timestamp = conversations[a][i].timestamp

C37_FallbackIsCached ==
    /\ [][\A c \in Conns :
            (pc[c] = "llm_wait" /\ pc'[c] # "llm_wait") =>
                [key |-> HashKey(local[c].cache_key),
                 value |-> [text |-> local'[c].response_text],
                 timestamp |-> now] \in EntriesOf(cache')]_vars
    /\ [][\A b \in Conns :
            (pc[b] = "loop" /\ pc'[b] = "send_emotion") =>
                LET k  == Normalized(local'[b].text)
                    hk == HashKey(k)
                IN  (/\ Has(cache, hk)
                     /\ StoredFallback(k, EntryOf(cache, hk))
                     /\ now - EntryOf(cache, hk).timestamp < ttl_seconds)
                        => local'[b].cached_response = EntryOf(cache, hk).value]_vars
    /\ [](\A b \in Conns :
            (InTurn(b) /\ local[b].kind = "str" /\ local[b].cached_response # None) =>
                /\ Count(TurnTrace(b, turnNo[b]), "call_llm") = 0
                /\ pc[b] = "tts_wait" => sent[b] = EvText(local[b].cached_response.text))

\* the adapter failed for a query of one connection; the other connection,
\* which never called the adapter, has sent the canned reply stored for it
C37_Witness ==
    \E b \in Conns : \E a \in DOMAIN conversations \ {b} :
        /\ pc[b] = "tts_wait" /\ local[b].hit
        /\ Count(trace[b], "call_llm") = 0
        /\ Count(trace[a], "return_llm") = 1
        /\ conversations[a][1].assistant_message
              = MockResponse(conversations[a][1].user_message)
        /\ Normalized(local[b].text) = Normalized(conversations[a][1].user_message)
        /\ sent[b] = EvText(conversations[a][1].assistant_message)

----------------------------------------------------------------------------
(* C38: the histories are apart, connection by connection: a history       *)
(* changes only in a turn of its own connection, and it holds turns of     *)
(* that connection alone, so never more of them than the connection has    *)
(* had.                                                                    *)
C38_HistoriesApart ==
    /\ [][\A c \in Conns :
            (/\ c \in DOMAIN conversations
             /\ conversations'[c] # conversations[c])
                => /\ pc[c] \in {"send_emotion", "llm_wait"}
                   /\ pc'[c] = "send_text"]_vars
    /\ [](\A c \in DOMAIN conversations : Len(conversations[c]) <= turnNo[c])

\* a connection in its first turn holds a history of two turns: the first
\* was made by the connection that had its id before
C38_InheritedHistory ==
    \E c \in DOMAIN conversations :
        /\ turnNo[c] = 1 /\ pc[c] = "send_text"
        /\ Len(conversations[c]) = 2

----------------------------------------------------------------------------
(* C39 as claimed: in app.py, whatever /api/chat requests and WebSocket    *)
(* turns came before, a successful /api/chat result holds response,        *)
(* emotion and cached, and its emotion is the one detected for that        *)
(* request, not one read from the cache, nor missing because of the cache. *)
C39_ChatEmotionOfRequest ==
    (http.pc = "done" /\ http.status = 200) =>
        /\ {"response", "emotion", "cached"} \subseteq DOMAIN http.result
        /\ http.emotion_data # None
        /\ http.result.emotion = http.emotion_data.emotion

\* a request was answered from an entry that a WebSocket turn had written:
\* the result holds response and cached, and no emotion
C39_ResultWithoutEmotion ==
    /\ http.pc = "done" /\ http.status = 200
    /\ http.calls = {}
    /\ DOMAIN http.result = {"response", "cached"}
    /\ http.result.cached
    /\ \E c \in Conns : Count(trace[c], "return_llm") = 1

----------------------------------------------------------------------------
(* C40 as claimed: in app.py every turn of the WebSocket handler sends     *)
(* emotion_detected, response_text, lip_sync_data, audio_data and          *)
(* response_complete, in that order; when synthesis is unavailable or      *)
(* gives no bytes, audio_data is sent with an empty payload.               *)
C40_AppTurnSequence ==
    \A c \in Conns :
        turnNo[c] > 0 =>
            /\ IsPrefix(TurnEvents(c, turnNo[c]), TurnEventTypes)
            /\ (TurnOver(c) /\ pc[c] # "closed") =>
                   TurnEvents(c, turnNo[c]) = TurnEventTypes
            /\ (pc[c] = "send_complete"
                    /\ (~TTS_AVAILABLE \/ local[c].tts_outcome = "empty")) =>
                   sent[c] = EvAudio(<<>>)

\* synthesis gave no bytes, and the turn ended having sent emotion_detected,
\* response_text and response_complete alone
C40_TurnWithoutAudio ==
    \E c \in Conns :
        /\ pc[c] = "loop" /\ turnNo[c] = 1
        /\ TTS_AVAILABLE /\ local[c].tts_outcome = "empty"
        /\ TurnEvents(c, 1) = <<"emotion_detected", "response_text", "response_complete">>

====
